---------------------------- MODULE Spec2Model ----------------------------
(***************************************************************************)
(* Route search of the Kochi route planner (src/dijkstra.py):              *)
(* LocationToLocationOptimizer builds a multi-modal network once and       *)
(* answers find_optimized_routes(start, end) by four weighted Dijkstra     *)
(* searches, path reconstruction, deduplication and ranking; and the       *)
(* window that calls it from a worker thread (src/planner_gui.py).         *)
(*                                                                         *)
(* Numbers.  The program computes with binary floating point.  The model   *)
(* computes with integers in fixed point:                                  *)
(*   distance, cost, time : units of 1/Unit (1e-4 km, 1e-4 rupee,          *)
(*                          1e-4 minute)                                   *)
(*   latitude, longitude  : units of 1e-4 degree                           *)
(*   weights              : tenths                                         *)
(*   composite score      : units of 1/(6000 * Unit), which makes every    *)
(*                          term of the composite an integer.              *)
(***************************************************************************)
EXTENDS Integers, Sequences, FiniteSets, TLC

VARIABLES
    locations,       \* self.locations: ordered dict, a sequence of entries
    metro_stations,  \* self.metro_stations: ordered dict name -> (lat, lon)
    graph,           \* self.graph: defaultdict(list), name -> edge list
    pc,              \* position of the caller / of find_optimized_routes
    start_location,  \* argument of the running call
    end_location,    \* argument of the running call
    strategy_idx,    \* index of the strategy of the running for-loop
    search,          \* local state of the running _dijkstra call
    all_routes,      \* local list of find_optimized_routes
    result,          \* value returned by the last call
    parked,          \* the locals of a second call, while it does not run
    gui              \* the fields of the window, LocationRouteGUI

vars == << locations, metro_stations, graph, pc, start_location,
           end_location, strategy_idx, search, all_routes, result, parked,
           gui >>

\* Fixed-point scale: one kilometre, rupee or minute is Unit units.
Unit == 100 * 100

\* float('inf') of the search tables; larger than every finite value.
Infinity == 2000000000

\* None
None == "None"

-----------------------------------------------------------------------------
(* The hard-coded catalog: <<name, lat, lon, zone>> and                     *)
(* <<name, lat, lon, type>>, in source order.                               *)

metro_data ==
  << <<"Aluva Metro", 101082, 763520, "Zone 3">>,
     <<"Pulinchodu Metro", 101012, 763445, "Zone 3">>,
     <<"Companypady Metro", 100942, 763370, "Zone 3">>,
     <<"Ambattukavu Metro", 100872, 763295, "Zone 2">>,
     <<"Muttom Metro", 100802, 763220, "Zone 2">>,
     <<"Kalamassery Metro", 100732, 763145, "Zone 2">>,
     <<"Cusat Metro", 100662, 763070, "Zone 2">>,
     <<"Pathadipalam Metro", 100592, 762995, "Zone 2">>,
     <<"Edapally Metro", 100522, 762920, "Zone 2">>,
     <<"Changampuzha Park Metro", 100452, 762845, "Zone 2">>,
     <<"Palarivattom Metro", 100382, 762770, "Zone 2">>,
     <<"J.L.N Stadium Metro", 100312, 762695, "Zone 2">>,
     <<"Kaloor Metro", 100242, 762620, "Zone 2">>,
     <<"Lissie Metro", 100172, 762545, "Zone 1">>,
     <<"M.G Road Metro", 100102, 762470, "Zone 1">>,
     <<"Maharajas Metro", 100032, 762395, "Zone 1">>,
     <<"Ernakulam South Metro", 99962, 762320, "Zone 1">>,
     <<"Kadavanthra Metro", 99892, 762245, "Zone 2">>,
     <<"Elamkulam Metro", 99822, 762170, "Zone 2">>,
     <<"Vyttila Metro", 99752, 762095, "Zone 2">>,
     <<"Thaikoodam Metro", 99682, 762020, "Zone 3">>,
     <<"Petta Metro", 99612, 761945, "Zone 3">>,
     <<"Thripunithura Metro", 99542, 761870, "Zone 3">> >>

popular_places ==
  << <<"Aluva Town", 101100, 763550, "residential">>,
     <<"Kalamassery Town", 100750, 763200, "residential">>,
     <<"Edapally Market", 100540, 762950, "commercial">>,
     <<"Kakkanad Infopark", 100150, 763450, "commercial">>,
     <<"Palarivattom Junction", 100400, 762800, "junction">>,
     <<"M.G Road Market", 100120, 762500, "commercial">>,
     <<"Marine Drive", 99750, 762800, "tourist">>,
     <<"Ernakulam South Bus Stand", 99980, 762350, "transport_hub">>,
     <<"Fort Kochi", 99650, 762420, "tourist">>,
     <<"Vyttila Hub", 99770, 763100, "transport_hub">>,
     <<"Kakkanad Seaport Airport Road", 100050, 763350, "commercial">>,
     <<"Thripunithura Town", 99560, 761900, "residential">>,
     <<"Medical Trust Hospital Edapally", 100510, 762880, "hospital">>,
     <<"Lakeshore Hospital Kochi", 99800, 762950, "hospital">>,
     <<"Amrita Hospital Kochi", 100430, 763100, "hospital">>,
     <<"CUSAT Campus", 100650, 763050, "educational">>,
     <<"Rajagiri College Kakkanad", 100200, 763400, "educational">>,
     <<"Lulu Mall Edapally", 100450, 763000, "mall">>,
     <<"Oberon Mall", 100340, 762780, "mall">>,
     <<"Centre Square Mall", 99880, 762880, "mall">> >>

HaversineTable ==
  << <<0, 11313, 22627, 33941, 45254, 56568, 67882, 79197, 90511, 101825, 113140, 124455, 135770, 147085, 158400, 169715, 181030, 192346, 203661, 214977, 226293, 237609, 248925, 3846, 50893, 86754, 103917, 109382, 154641, 167785, 177271, 199652, 152964, 116253, 245165, 94629, 155615, 85851, 70392, 98950, 90441, 115633, 150911>>,
     <<11313, 0, 11314, 22627, 33941, 45255, 56569, 67883, 79198, 90512, 101827, 113141, 124456, 135771, 147086, 158401, 169717, 181032, 192348, 203664, 214980, 226296, 237612, 15095, 39600, 75441, 95852, 98069, 143328, 157097, 165958, 188500, 143177, 107474, 233852, 83319, 145258, 74932, 59079, 90425, 79238, 104328, 140253>>,
     <<22627, 11314, 0, 11314, 22627, 33941, 45256, 56570, 67884, 79198, 90513, 101828, 113143, 124458, 135773, 147088, 158403, 169719, 181034, 192350, 203666, 214982, 226298, 26400, 28323, 64128, 88501, 86756, 132014, 146503, 154644, 177369, 133632, 99210, 222538, 72009, 135055, 64149, 47766, 82572, 68073, 93024, 129705>>,
     <<33941, 22627, 11314, 0, 11314, 22628, 33942, 45256, 56570, 67885, 79199, 90514, 101829, 113144, 124459, 135774, 147090, 158405, 169721, 181036, 192352, 203668, 214984, 37710, 17094, 52816, 82057, 75443, 120701, 136025, 143331, 166262, 124383, 91600, 211225, 60701, 125043, 53585, 36453, 75602, 56965, 81723, 119298>>,
     <<45254, 33941, 22627, 11314, 0, 11314, 22628, 33942, 45257, 56571, 67886, 79200, 90515, 101830, 113145, 124460, 135776, 147091, 158407, 169723, 181039, 192355, 203671, 49021, 6183, 41504, 76748, 64130, 109387, 125692, 132017, 155184, 115503, 84821, 199911, 49395, 115273, 43401, 25141, 69780, 45958, 70426, 109072>>,
     <<56568, 45255, 33941, 22628, 11314, 0, 11314, 22628, 33943, 45257, 56572, 67886, 79201, 90516, 101831, 113147, 124462, 135777, 147093, 158409, 169725, 181041, 192357, 60334, 6345, 30193, 72824, 52817, 98074, 115543, 120703, 144144, 107083, 79087, 188597, 38094, 105810, 33940, 13832, 65413, 35147, 59135, 99082>>,
     <<67882, 56569, 45256, 33942, 22628, 11314, 0, 11314, 22629, 33943, 45258, 56572, 67887, 79202, 90517, 101832, 113148, 124463, 135779, 147095, 158411, 169727, 181043, 71647, 17272, 18885, 70515, 41505, 86760, 105631, 109390, 133149, 99240, 74638, 177283, 26803, 96746, 26005, 2564, 62806, 24788, 47856, 89409>>,
     <<79197, 67883, 56570, 45256, 33942, 22628, 11314, 0, 11314, 22629, 33943, 45258, 56573, 67888, 79203, 90518, 101834, 113149, 124465, 135780, 147096, 158412, 169728, 82961, 28503, 7597, 69982, 30193, 75446, 96030, 98076, 122213, 92123, 71716, 165969, 15546, 88204, 21369, 8823, 62180, 15799, 36597, 80166>>,
     <<90511, 79198, 67884, 56570, 45257, 33943, 22629, 11314, 0, 11314, 22629, 33944, 45259, 56574, 67889, 79204, 90519, 101835, 113150, 124466, 135782, 147098, 158414, 94275, 39781, 3846, 71265, 18885, 64133, 86842, 86762, 111352, 85910, 70508, 154655, 4578, 80350, 22205, 20129, 63594, 11867, 25388, 71521>>,
     <<101825, 90512, 79198, 67885, 56571, 45257, 33943, 22629, 11314, 0, 11315, 22629, 33944, 45259, 56574, 67889, 79205, 90520, 101836, 113152, 124468, 135784, 147100, 105589, 51075, 15097, 74270, 7597, 52819, 78214, 75448, 100592, 80812, 71104, 143340, 7502, 73405, 28027, 31440, 66919, 16972, 14344, 63719>>,
     <<113140, 101827, 90513, 79199, 67886, 56572, 45258, 33943, 22629, 11315, 0, 11315, 22630, 33945, 45260, 56575, 67890, 79206, 90521, 101837, 113153, 124469, 135785, 116903, 62377, 26402, 78800, 3847, 41506, 70352, 64134, 89967, 77051, 73459, 132026, 18645, 67651, 36524, 42754, 71890, 26294, 4797, 57105>>,
     <<124455, 113141, 101828, 90514, 79200, 67886, 56572, 45258, 33944, 22629, 11315, 0, 11315, 22630, 33945, 45260, 56576, 67891, 79207, 90522, 101838, 113154, 124470, 128218, 73683, 37713, 84611, 15097, 30195, 63541, 52820, 79533, 74827, 77413, 120712, 29917, 63411, 46245, 54068, 78194, 36752, 9814, 52133>>,
     <<135770, 124456, 113143, 101829, 90515, 79201, 67887, 56573, 45259, 33944, 22630, 11315, 0, 11315, 22630, 33945, 45261, 56576, 67892, 79208, 90523, 101839, 113156, 139532, 84991, 49026, 91458, 26403, 18886, 58150, 41507, 69375, 74279, 82737, 109397, 41213, 61003, 56562, 65382, 85536, 47604, 20632, 49304>>,
     <<147085, 135771, 124458, 113144, 101830, 90516, 79202, 67888, 56574, 45259, 33945, 22630, 11315, 0, 11315, 22630, 33946, 45261, 56577, 67893, 79208, 90524, 101841, 150847, 96301, 60340, 99128, 37714, 7597, 54604, 30195, 59636, 75444, 89187, 98082, 52517, 60646, 67201, 76697, 93674, 58631, 31798, 48989>>,
     <<158400, 147086, 135773, 124459, 113145, 101831, 90517, 79203, 67889, 56574, 45260, 33945, 22630, 11315, 0, 11315, 22631, 33946, 45262, 56577, 67893, 79209, 90525, 162162, 107612, 71654, 107444, 49027, 3847, 53272, 18887, 50557, 78246, 96536, 86768, 63825, 62375, 78031, 88012, 102417, 69751, 43042, 51236>>,
     <<169715, 158401, 147088, 135774, 124460, 113147, 101832, 90518, 79204, 67889, 56575, 45260, 33945, 22630, 11315, 0, 11315, 22631, 33946, 45262, 56578, 67894, 79210, 173477, 118924, 82969, 116268, 60341, 15098, 54317, 7597, 42565, 82518, 104596, 75453, 75135, 66025, 88982, 99327, 111623, 80925, 54315, 55735>>,
     <<181030, 169717, 158403, 147090, 135776, 124462, 113148, 101834, 90519, 79205, 67890, 56576, 45261, 33946, 22631, 11315, 0, 11315, 22631, 33947, 45263, 56579, 67895, 184793, 130237, 94284, 125493, 71656, 26404, 57609, 3847, 36380, 88046, 113214, 64138, 86447, 71304, 100014, 110642, 121188, 92134, 65604, 61999>>,
     <<192346, 181032, 169719, 158405, 147091, 135777, 124463, 113149, 101835, 90520, 79206, 67891, 56576, 45261, 33946, 22631, 11315, 0, 11316, 22631, 33947, 45263, 56579, 196108, 141550, 105599, 135036, 82971, 37716, 62796, 15098, 33036, 94610, 122274, 52824, 97759, 77880, 111103, 121957, 131032, 103366, 76900, 69551>>,
     <<203661, 192348, 181034, 169721, 158407, 147093, 135779, 124465, 113150, 101836, 90521, 79207, 67892, 56577, 45262, 33946, 22631, 11316, 0, 11316, 22632, 33948, 45264, 207423, 152864, 116914, 144835, 94286, 49030, 69456, 26405, 33397, 102011, 131683, 41510, 109073, 85454, 122234, 133273, 141097, 114615, 88201, 78020>>,
     <<214977, 203664, 192350, 181036, 169723, 158409, 147095, 135780, 124466, 113152, 101837, 90522, 79208, 67893, 56577, 45262, 33947, 22631, 11316, 0, 11316, 22632, 33948, 218739, 164178, 128230, 154841, 105601, 60344, 77208, 37717, 37356, 110079, 141372, 30197, 120387, 93786, 133397, 144588, 151340, 125876, 99506, 87137>>,
     <<226293, 214980, 203666, 192352, 181039, 169725, 158411, 147096, 135782, 124468, 113153, 101838, 90523, 79208, 67893, 56578, 45263, 33947, 22632, 11316, 0, 11316, 22632, 230055, 175493, 139545, 165017, 116917, 71659, 85756, 49031, 43951, 118680, 151287, 18888, 131701, 102690, 144583, 155904, 161725, 137146, 110813, 96720>>,
     <<237609, 226296, 214982, 203668, 192355, 181041, 169727, 158412, 147098, 135784, 124469, 113154, 101839, 90524, 79209, 67894, 56579, 45263, 33948, 22632, 11316, 0, 11316, 241371, 186808, 150861, 175333, 128233, 82974, 94885, 60345, 52192, 127705, 161388, 7598, 143016, 112031, 155788, 167220, 172228, 148423, 122122, 106644>>,
     <<248925, 237612, 226298, 214984, 203671, 192357, 181043, 169728, 158414, 147100, 135785, 124470, 113156, 101841, 90525, 79210, 67895, 56579, 45264, 33948, 22632, 11316, 0, 252687, 198123, 162177, 185766, 139548, 94290, 104444, 71661, 61421, 137071, 171640, 3847, 154331, 121707, 167009, 178536, 182829, 159706, 133432, 116821>>,
     <<3846, 15095, 26400, 37710, 49021, 60334, 71647, 82961, 94275, 105589, 116903, 128218, 139532, 150847, 162162, 173477, 184793, 196108, 207423, 218739, 230055, 241371, 252687, 0, 54615, 90511, 106201, 113140, 158399, 171106, 181030, 203235, 155881, 118790, 248924, 98409, 158781, 89317, 74162, 101414, 94072, 119366, 154222>>,
     <<50893, 39600, 28323, 17094, 6183, 6345, 17272, 28503, 39781, 51075, 62377, 73683, 84991, 96301, 107612, 118924, 130237, 141550, 152864, 164178, 175493, 186808, 198123, 54615, 0, 35978, 72114, 58588, 103835, 119510, 126462, 149183, 109520, 79550, 194352, 44041, 109124, 37229, 19833, 64959, 39903, 64754, 102889>>,
     <<86754, 75441, 64128, 52816, 41504, 30193, 18885, 7597, 3846, 15097, 26402, 37713, 49026, 60340, 71654, 82969, 94284, 105599, 116914, 128230, 139545, 150861, 162177, 90511, 35978, 0, 69842, 22629, 67888, 89366, 90519, 114726, 87181, 69907, 158414, 8359, 82284, 20478, 16416, 62105, 11407, 29001, 73788>>,
     <<103917, 95852, 88501, 82057, 76748, 72824, 70515, 69982, 71265, 74270, 78800, 84611, 91458, 99128, 107444, 116268, 125493, 135036, 144835, 154841, 165017, 175333, 185766, 106201, 72114, 69842, 0, 76409, 104079, 83934, 121928, 125752, 57047, 15606, 181978, 74146, 67175, 49377, 70776, 7803, 59503, 76345, 69263>>,
     <<109382, 98069, 86756, 75443, 64130, 52817, 41505, 30193, 18885, 7597, 3847, 15097, 26403, 37714, 49027, 60341, 71656, 82971, 94286, 105601, 116917, 128233, 139548, 113140, 58588, 22629, 76409, 0, 45260, 72277, 67890, 93201, 77373, 71705, 135785, 15044, 68709, 33016, 39013, 69359, 22593, 7022, 58481>>,
     <<154641, 143328, 132014, 120701, 109387, 98074, 86760, 75446, 64133, 52819, 41506, 30195, 18886, 7597, 3847, 15098, 26404, 37716, 49030, 60344, 71659, 82974, 94290, 158399, 103835, 67888, 104079, 45260, 0, 52649, 22631, 52991, 76366, 93402, 90525, 60099, 60782, 74192, 84260, 98951, 65908, 39223, 49434>>,
     <<167785, 157097, 146503, 136025, 125692, 115543, 105631, 96030, 86842, 78214, 70352, 63541, 58150, 54604, 53272, 54317, 57609, 62796, 69456, 77208, 85756, 94885, 104444, 171106, 119510, 89366, 83934, 72277, 52649, 0, 55521, 43076, 32929, 68851, 100804, 84961, 17342, 82440, 103752, 82588, 80859, 65642, 16903>>,
     <<177271, 165958, 154644, 143331, 132017, 120703, 109390, 98076, 86762, 75448, 64134, 52820, 41507, 30195, 18887, 7597, 3847, 15098, 26405, 37717, 49031, 60345, 71661, 181030, 126462, 90519, 121928, 67890, 22631, 55521, 0, 37487, 85387, 109781, 67895, 82711, 68686, 96167, 106888, 117551, 88301, 61801, 59095>>,
     <<199652, 188500, 177369, 166262, 155184, 144144, 133149, 122213, 111352, 100592, 89967, 79533, 69375, 59636, 50557, 42565, 36380, 33036, 33397, 37356, 43951, 52192, 61421, 203235, 149183, 114726, 125752, 93201, 52991, 43076, 37487, 0, 75656, 111134, 57822, 108083, 60392, 114312, 130856, 123521, 109302, 86260, 56496>>,
     <<152964, 143177, 133632, 124383, 115503, 107083, 99240, 92123, 85910, 80812, 77051, 74827, 74279, 75444, 78246, 82518, 88046, 94610, 102011, 110079, 118680, 127705, 137071, 155881, 109520, 87181, 57047, 77373, 76366, 32929, 85387, 75656, 0, 41459, 133479, 85738, 16762, 73389, 98005, 58012, 76401, 72423, 27020>>,
     <<116253, 107474, 99210, 91600, 84821, 79087, 74638, 71716, 70508, 71104, 73459, 77413, 82737, 89187, 96536, 104596, 113214, 122274, 131683, 141372, 151287, 161388, 171640, 118790, 79550, 69907, 15606, 71705, 93402, 68851, 109781, 111134, 41459, 0, 167880, 72559, 51880, 50346, 74365, 17555, 58711, 70252, 54830>>,
     <<245165, 233852, 222538, 211225, 199911, 188597, 177283, 165969, 154655, 143340, 132026, 120712, 109397, 98082, 86768, 75453, 64138, 52824, 41510, 30197, 18888, 7598, 3847, 248924, 194352, 158414, 181978, 135785, 90525, 100804, 67895, 57822, 133479, 167880, 0, 150583, 118048, 163176, 174779, 179017, 155896, 129649, 113069>>,
     <<94629, 83319, 72009, 60701, 49395, 38094, 26803, 15546, 4578, 7502, 18645, 29917, 41213, 52517, 63825, 75135, 86447, 97759, 109073, 120387, 131701, 143016, 154331, 98409, 44041, 8359, 74146, 15044, 60099, 84961, 82711, 108083, 85738, 72559, 150583, 0, 79320, 25678, 24265, 66558, 14736, 21845, 70053>>,
     <<155615, 145258, 135055, 125043, 115273, 105810, 96746, 88204, 80350, 73405, 67651, 63411, 61003, 60646, 62375, 66025, 71304, 77880, 85454, 93786, 102690, 112031, 121707, 158781, 109124, 82284, 67175, 68709, 60782, 17342, 68686, 60392, 16762, 51880, 118048, 79320, 0, 71953, 95148, 66382, 72484, 62865, 11743>>,
     <<85851, 74932, 64149, 53585, 43401, 33940, 26005, 21369, 22205, 28027, 36524, 46245, 56562, 67201, 78031, 88982, 100014, 111103, 122234, 133397, 144583, 155788, 167009, 89317, 37229, 20478, 49377, 33016, 74192, 82440, 96167, 114312, 73389, 50346, 163176, 25678, 71953, 0, 25068, 41630, 11173, 36439, 65731>>,
     <<70392, 59079, 47766, 36453, 25141, 13832, 2564, 8823, 20129, 31440, 42754, 54068, 65382, 76697, 88012, 99327, 110642, 121957, 133273, 144588, 155904, 167220, 178536, 74162, 19833, 16416, 70776, 39013, 84260, 103752, 106888, 130856, 98005, 74365, 174779, 24265, 95148, 25068, 0, 63027, 22903, 45411, 87620>>,
     <<98950, 90425, 82572, 75602, 69780, 65413, 62806, 62180, 63594, 66919, 71890, 78194, 85536, 93674, 102417, 111623, 121188, 131032, 141097, 151340, 161725, 172228, 182829, 101414, 64959, 62105, 7803, 69359, 98951, 82588, 117551, 123521, 58012, 17555, 179017, 66558, 66382, 41630, 63027, 0, 51875, 69650, 67146>>,
     <<90441, 79238, 68073, 56965, 45958, 35147, 24788, 15799, 11867, 16972, 26294, 36752, 47604, 58631, 69751, 80925, 92134, 103366, 114615, 125876, 137146, 148423, 159706, 94072, 39903, 11407, 59503, 22593, 65908, 80859, 88301, 109302, 76401, 58711, 155896, 14736, 72484, 11173, 22903, 51875, 0, 27016, 64729>>,
     <<115633, 104328, 93024, 81723, 70426, 59135, 47856, 36597, 25388, 14344, 4797, 9814, 20632, 31798, 43042, 54315, 65604, 76900, 88201, 99506, 110813, 122122, 133432, 119366, 64754, 29001, 76345, 7022, 39223, 65642, 61801, 86260, 72423, 70252, 129649, 21845, 62865, 36439, 45411, 69650, 27016, 0, 52309>>,
     <<150911, 140253, 129705, 119298, 109072, 99082, 89409, 80166, 71521, 63719, 57105, 52133, 49304, 48989, 51236, 55735, 61999, 69551, 78020, 87137, 96720, 106644, 116821, 154222, 102889, 73788, 69263, 58481, 49434, 16903, 59095, 56496, 27020, 54830, 113069, 70053, 11743, 65731, 87620, 67146, 64729, 52309, 0>> >>

\* Every name of the model in Python's string order.
NameOrder ==
  << "Aluva Metro",
     "Aluva Town",
     "Ambattukavu Metro",
     "Amrita Hospital Kochi",
     "CUSAT Campus",
     "Centre Square Mall",
     "Changampuzha Park Metro",
     "Companypady Metro",
     "Cusat Metro",
     "Edapally Market",
     "Edapally Metro",
     "Elamkulam Metro",
     "Ernakulam South Bus Stand",
     "Ernakulam South Metro",
     "Fort Kochi",
     "J.L.N Stadium Metro",
     "Kadavanthra Metro",
     "Kakkanad Infopark",
     "Kakkanad Seaport Airport Road",
     "Kalamassery Metro",
     "Kalamassery Town",
     "Kaloor Metro",
     "Lakeshore Hospital Kochi",
     "Lissie Metro",
     "Lulu Mall Edapally",
     "M.G Road Market",
     "M.G Road Metro",
     "Maharajas Metro",
     "Marine Drive",
     "Medical Trust Hospital Edapally",
     "Muttom Metro",
     "NoSuchPlace",
     "Oberon Mall",
     "P1",
     "P2",
     "Palarivattom Junction",
     "Palarivattom Metro",
     "Pathadipalam Metro",
     "Petta Metro",
     "Pulinchodu Metro",
     "Rajagiri College Kakkanad",
     "S1",
     "S2",
     "Thaikoodam Metro",
     "Thripunithura Metro",
     "Thripunithura Town",
     "Vyttila Hub",
     "Vyttila Metro" >>

\* The catalog in source order, used to find a coordinate pair's row.
Catalog == metro_data \o popular_places

CoordIndex(lat, lon) ==
    CHOOSE i \in 1..Len(Catalog) : Catalog[i][2] = lat /\ Catalog[i][3] = lon

Abs(x) == IF x < 0 THEN -x ELSE x

\* _haversine_distance: R * c with R = 6371 and c = 2 * asin(sqrt(a)).
\*  - Two points of one meridian (dlon = 0): a = sin(dlat/2)^2, so c is
\*    |dlat| in radians and the distance is 6371 * pi / 180 = 111.195 km
\*    per degree of latitude.
\*  - Two points of the catalog: HaversineTable[i][j], the value of the
\*    formula for catalog entries i and j, in units of 1e-4 km.
haversine_distance(lat1, lon1, lat2, lon2) ==
    IF lon1 = lon2
    THEN (Abs(lat2 - lat1) * 111195 + 500) \div 1000
    ELSE HaversineTable[CoordIndex(lat1, lon1)][CoordIndex(lat2, lon2)]

-----------------------------------------------------------------------------
(* Ordered dictionaries (dict keeps insertion order; assignment to an      *)
(* existing key keeps the key's position and replaces its value).          *)

Keys(d) == { d[i].name : i \in 1..Len(d) }

Get(d, name) == d[CHOOSE i \in 1..Len(d) : d[i].name = name]

\* The dict after `for e in entries: d[e.name] = e`.
dict_update(d, entries) ==
    LET all == d \o entries
        first == SelectSeq([i \in 1..Len(all) |-> i],
                           LAMBDA i : \A j \in 1..(i - 1) :
                                         all[j].name # all[i].name)
        last(name) == CHOOSE j \in 1..Len(all) :
                        /\ all[j].name = name
                        /\ \A m \in (j + 1)..Len(all) : all[m].name # name
    IN  [k \in 1..Len(first) |-> all[last(all[first[k]].name)]]

\* list.sort(key=...): stable, ascending.  Element i goes to the position
\* that counts the elements ordered before it.
SortPos(keys, i) ==
    1 + Cardinality({ j \in 1..Len(keys) :
                        keys[j] < keys[i] \/ (keys[j] = keys[i] /\ j < i) })

StableSort(seq, keys) ==
    [p \in 1..Len(seq) |-> seq[CHOOSE i \in 1..Len(seq) : SortPos(keys, i) = p]]

-----------------------------------------------------------------------------
(* Network construction.  Every builder method is a loop of _add_edge      *)
(* calls; the model lists a method's calls in the order the loop makes     *)
(* them and appends them to the graph.                                     *)

\* One call self._add_edge(from_loc, to_loc, mode, time, distance, cost).
add_edge(from_loc, to_loc, mode, time, distance, cost) ==
    [from_loc |-> from_loc,
     edge |-> [destination |-> to_loc, mode |-> mode, time |-> time,
               distance |-> distance, cost |-> cost]]

\* The graph after the calls: self.graph[from_loc].append(edge) for each,
\* in order (a defaultdict: the key appears with its first edge).
append_edges(g, calls) ==
    [n \in DOMAIN g \cup { calls[i].from_loc : i \in 1..Len(calls) } |->
       LET own == SelectSeq(calls, LAMBDA c : c.from_loc = n)
       IN  (IF n \in DOMAIN g THEN g[n] ELSE << >>)
             \o [i \in 1..Len(own) |-> own[i].edge]]

METRO_TIME == (5 * Unit) \div 2       \* time = 2.5
METRO_COST == 5 * Unit               \* cost = 5

\* metro_edge_calls without the second call, that of line 74.
metro_edge_calls_one_way(locs, stations_list) ==
    [i \in 1..(Len(stations_list) - 1) |->
       LET station1 == stations_list[i]
           station2 == stations_list[i + 1]
           l1 == Get(locs, station1)
           l2 == Get(locs, station2)
           distance == haversine_distance(l1.lat, l1.lon, l2.lat, l2.lon)
       IN  add_edge(station1, station2, "metro", METRO_TIME, distance,
                    METRO_COST)]

\* Lines 60-74: for i in range(len(stations_list) - 1), two calls each.
metro_edge_calls(locs, stations_list) ==
    [k \in 1..(2 * (Len(stations_list) - 1)) |->
       LET i == (k + 1) \div 2
           station1 == stations_list[i]
           station2 == stations_list[i + 1]
           l1 == Get(locs, station1)
           l2 == Get(locs, station2)
           distance == haversine_distance(l1.lat, l1.lon, l2.lat, l2.lon)
       IN  IF k % 2 = 1
           THEN add_edge(station1, station2, "metro", METRO_TIME, distance,
                         METRO_COST)
           ELSE add_edge(station2, station1, "metro", METRO_TIME, distance,
                         METRO_COST)]

\* self.graph[key] of a defaultdict(list): the graph after the read, which
\* gives a missing key the empty list.
defaultdict_getitem(g, key) ==
    IF key \in DOMAIN g THEN g
    ELSE [n \in DOMAIN g \cup { key } |-> IF n = key THEN << >> ELSE g[n]]

\* _build_metro_network
build_metro_network(self, metro) ==
    LET locs == dict_update(self.locations,
                  [i \in 1..Len(metro) |->
                     [name |-> metro[i][1], lat |-> metro[i][2],
                      lon |-> metro[i][3], type |-> "metro_station",
                      zone |-> metro[i][4]]])
        stations == dict_update(self.metro_stations,
                  [i \in 1..Len(metro) |->
                     [name |-> metro[i][1], lat |-> metro[i][2],
                      lon |-> metro[i][3]]])
        stations_list == [i \in 1..Len(metro) |-> metro[i][1]]
    IN  [locations |-> locs,
         metro_stations |-> stations,
         graph |-> append_edges(self.graph,
                                metro_edge_calls(locs, stations_list))]

\* _add_popular_locations
add_popular_locations(self, places) ==
    [self EXCEPT !.locations =
       dict_update(@, [i \in 1..Len(places) |->
                         [name |-> places[i][1],
                          lat |-> places[i][2],
                          lon |-> places[i][3],
                          type |-> places[i][4],
                          zone |-> "N/A"]])]

\* find_nearest_metro_stations without the sort of line 214: the first k
\* stations of the catalog.
find_nearest_metro_stations_unsorted(self, location, k) ==
    IF location \notin Keys(self.locations) THEN << >>
    ELSE LET loc_data == Get(self.locations, location)
             distances ==
               [i \in 1..Len(self.metro_stations) |->
                  << self.metro_stations[i].name,
                     haversine_distance(loc_data.lat, loc_data.lon,
                                        self.metro_stations[i].lat,
                                        self.metro_stations[i].lon) >>]
         IN  SubSeq(distances, 1,
                    IF k < Len(distances) THEN k ELSE Len(distances))

\* _find_nearest_metro_stations: <<station, dist>> of the k nearest.
find_nearest_metro_stations(self, location, k) ==
    IF location \notin Keys(self.locations) THEN << >>
    ELSE LET loc_data == Get(self.locations, location)
             distances ==
               [i \in 1..Len(self.metro_stations) |->
                  << self.metro_stations[i].name,
                     haversine_distance(loc_data.lat, loc_data.lon,
                                        self.metro_stations[i].lat,
                                        self.metro_stations[i].lon) >>]
             keys == [i \in 1..Len(distances) |-> distances[i][2]]
             sorted == StableSort(distances, keys)
         IN  SubSeq(sorted, 1, IF k < Len(sorted) THEN k ELSE Len(sorted))

WALK_LIMIT == (3 * Unit) \div 2       \* distance_km < 1.5
AUTO_LIMIT == 15 * Unit              \* distance_km < 15
BUS_MIN == 1 * Unit                  \* 1.0 < distance_km
BUS_MAX == 10 * Unit                 \* distance_km < 10
DIRECT_AUTO_LIMIT == 10 * Unit       \* distance < 10
AUTO_BASE == 20 * Unit               \* 20 + distance * 12
BUS_BASE == 10 * Unit                \* 10 + distance * 3
NEAREST_K == 3

\* Both directions of a walk, an auto or a bus connection.
walk_calls(a, b, d) ==
    << add_edge(a, b, "walk", d * 15, d, d * 5),
       add_edge(b, a, "walk", d * 15, d, d * 5) >>

auto_calls(a, b, d) ==
    << add_edge(a, b, "auto", d * 3, d, AUTO_BASE + d * 12),
       add_edge(b, a, "auto", d * 3, d, AUTO_BASE + d * 12) >>

\* bus_calls without the second call, that of line 145.
bus_calls_one_way(a, b, d) ==
    << add_edge(a, b, "bus", d * 4, d, BUS_BASE + d * 3) >>

bus_calls(a, b, d) ==
    << add_edge(a, b, "bus", d * 4, d, BUS_BASE + d * 3),
       add_edge(b, a, "bus", d * 4, d, BUS_BASE + d * 3) >>

\* Lines 126-145: the calls for one location and one of its stations.
connect_one(location, station, distance_km) ==
    (IF distance_km < WALK_LIMIT
     THEN walk_calls(location, station, distance_km) ELSE << >>)
    \o (IF distance_km < AUTO_LIMIT
        THEN auto_calls(location, station, distance_km) ELSE << >>)
    \o (IF BUS_MIN < distance_km /\ distance_km < BUS_MAX
        THEN bus_calls(location, station, distance_km) ELSE << >>)

\* Lines 125-145: for station, distance_km in nearest_stations[j..].
RECURSIVE connect_nearest(_, _, _)
connect_nearest(location, nearest_stations, j) ==
    IF j > Len(nearest_stations) THEN << >>
    ELSE connect_one(location, nearest_stations[j][1], nearest_stations[j][2])
         \o connect_nearest(location, nearest_stations, j + 1)

\* connect_location with the test of line 119 inverted.
connect_location_inverted(self, loc) ==
    IF loc.type # "metro_station" THEN << >>
    ELSE connect_nearest(loc.name,
           find_nearest_metro_stations(self, loc.name, NEAREST_K), 1)

\* Lines 118-145: the body of the loop for one catalog entry.
connect_location(self, loc) ==
    IF loc.type = "metro_station" THEN << >>
    ELSE connect_nearest(loc.name,
           find_nearest_metro_stations(self, loc.name, NEAREST_K), 1)

\* Lines 118-145 for the catalog entries lo..hi, in order.  The loop only
\* reads self.locations and self.metro_stations, so the calls of a range
\* are those of its two halves, one after the other.
RECURSIVE connect_range(_, _, _)
connect_range(self, lo, hi) ==
    IF lo > hi THEN << >>
    ELSE IF lo = hi THEN connect_location(self, self.locations[lo])
    ELSE LET mid == (lo + hi) \div 2
         IN  connect_range(self, lo, mid) \o connect_range(self, mid + 1, hi)

\* _connect_locations_to_metro
connect_locations_to_metro(self) ==
    [self EXCEPT !.graph =
       append_edges(@, connect_range(self, 1, Len(self.locations)))]

\* Lines 154-171: the calls for one pair loc1, loc2.
direct_one(data1, data2) ==
    LET distance == haversine_distance(data1.lat, data1.lon,
                                       data2.lat, data2.lon)
    IN  (IF distance < DIRECT_AUTO_LIMIT
         THEN auto_calls(data1.name, data2.name, distance) ELSE << >>)
        \o (IF distance < WALK_LIMIT
            THEN walk_calls(data1.name, data2.name, distance) ELSE << >>)

\* Lines 152-171 for the pairs (i, j) with j in lo..hi, in order.
RECURSIVE direct_inner(_, _, _, _)
direct_inner(locations_list, i, lo, hi) ==
    IF lo > hi THEN << >>
    ELSE IF lo = hi THEN direct_one(locations_list[i], locations_list[lo])
    ELSE LET mid == (lo + hi) \div 2
         IN  direct_inner(locations_list, i, lo, mid)
             \o direct_inner(locations_list, i, mid + 1, hi)

\* direct_outer with the inner loop over locations_list[i:] instead of
\* locations_list[i+1:].
RECURSIVE direct_outer_from_self(_, _, _)
direct_outer_from_self(locations_list, lo, hi) ==
    IF lo > hi THEN << >>
    ELSE IF lo = hi
    THEN direct_inner(locations_list, lo, lo, Len(locations_list))
    ELSE LET mid == (lo + hi) \div 2
         IN  direct_outer_from_self(locations_list, lo, mid)
             \o direct_outer_from_self(locations_list, mid + 1, hi)

\* Lines 152-171 for the outer indices lo..hi, each with locations_list[i+1:].
RECURSIVE direct_outer(_, _, _)
direct_outer(locations_list, lo, hi) ==
    IF lo > hi THEN << >>
    ELSE IF lo = hi
    THEN direct_inner(locations_list, lo, lo + 1, Len(locations_list))
    ELSE LET mid == (lo + hi) \div 2
         IN  direct_outer(locations_list, lo, mid)
             \o direct_outer(locations_list, mid + 1, hi)

\* _add_direct_connections
add_direct_connections(self) ==
    LET locations_list ==
          SelectSeq(self.locations, LAMBDA e : e.type # "metro_station")
    IN  [self EXCEPT !.graph =
           append_edges(@, direct_outer(locations_list, 1,
                                        Len(locations_list)))]

\* LocationToLocationOptimizer.__init__, for the catalog given by the two
\* lists metro_data and popular_places.
Optimizer(metro, places) ==
    add_direct_connections(
      connect_locations_to_metro(
        add_popular_locations(
          build_metro_network(
            [locations |-> << >>, metro_stations |-> << >>,
             graph |-> << >>],
            metro),
          places)))

-----------------------------------------------------------------------------
(* The search.                                                             *)

\* strategies with the weights of Cheapest and Fastest exchanged.
strategies_exchanged ==
    << [name |-> "Cheapest",        cost |-> 1, time |-> 8, conv |-> 1],
       [name |-> "Fastest",         cost |-> 8, time |-> 1, conv |-> 1],
       [name |-> "Balanced",        cost |-> 4, time |-> 4, conv |-> 2],
       [name |-> "Most Convenient", cost |-> 2, time |-> 3, conv |-> 5] >>

\* strategies (weights in tenths)
strategies ==
    << [name |-> "Cheapest",        cost |-> 8, time |-> 1, conv |-> 1],
       [name |-> "Fastest",         cost |-> 1, time |-> 8, conv |-> 1],
       [name |-> "Balanced",        cost |-> 4, time |-> 4, conv |-> 2],
       [name |-> "Most Convenient", cost |-> 2, time |-> 3, conv |-> 5] >>

\* edge_info[loc] = None
NoEdge == [destination |-> None, mode |-> None, time |-> 0, distance |-> 0,
           cost |-> 0]

\* No _dijkstra call is running.
NoSearch ==
    [distances |-> << >>, costs |-> << >>, times |-> << >>,
     distances_km |-> << >>, transfers |-> << >>, previous |-> << >>,
     edge_info |-> << >>, pq |-> {}, visited |-> {}, current |-> None,
     edge_i |-> 0]

\* Python's order on strings, for the (score, name) tuples of the heap.
NameRank(name) == CHOOSE i \in 1..Len(NameOrder) : NameOrder[i] = name

TupleLess(a, b) ==
    a[1] < b[1] \/ (a[1] = b[1] /\ NameRank(a[2]) < NameRank(b[2]))

\* heapq.heappop: the smallest tuple of the heap.
heap_min(pq) == CHOOSE a \in pq : \A b \in pq : a = b \/ TupleLess(a, b)

\* Lines 285-300 of _dijkstra.
dijkstra_init(locs, start) ==
    [distances    |-> [loc \in Keys(locs) |-> IF loc = start THEN 0 ELSE Infinity],
     costs        |-> [loc \in Keys(locs) |-> IF loc = start THEN 0 ELSE Infinity],
     times        |-> [loc \in Keys(locs) |-> IF loc = start THEN 0 ELSE Infinity],
     distances_km |-> [loc \in Keys(locs) |-> IF loc = start THEN 0 ELSE Infinity],
     transfers    |-> [loc \in Keys(locs) |-> 0],
     previous     |-> [loc \in Keys(locs) |-> None],
     edge_info    |-> [loc \in Keys(locs) |-> NoEdge],
     pq           |-> { << 0, start >> },
     visited      |-> {},
     current      |-> None,   \* the node whose edges the for loop visits
     edge_i       |-> 0]      \* the position of the for loop in its list

\* Lines 346-356: the composite score, in units of 1/(6000 * Unit).
composite_score(w, new_cost, new_time, new_transfers, mode_changed, edge) ==
    LET mode_change_penalty == IF mode_changed THEN 180 * Unit ELSE 0
        walk_penalty == IF edge.mode = "walk" /\ edge.distance > Unit \div 2
                        THEN 120 * edge.distance ELSE 0
        norm_cost == IF new_cost > 0 THEN 3 * new_cost ELSE 0
        norm_time == IF new_time > 0 THEN 5 * new_time ELSE 0
        norm_transfers == IF new_transfers > 0
                          THEN 120 * Unit * new_transfers ELSE 0
    IN  w.cost * norm_cost + w.time * norm_time
        + w.conv * (norm_transfers + mode_change_penalty + walk_penalty)

\* relax_edge without the assignment of line 364 (previous[neighbor]).
relax_edge_without_previous(s, current, edge, w) ==
    LET neighbor == edge.destination
        new_cost == s.costs[current] + edge.cost
        new_time == s.times[current] + edge.time
        new_distance == s.distances_km[current] + edge.distance
        prev_mode == IF s.edge_info[current] # NoEdge
                     THEN s.edge_info[current].mode ELSE None
        mode_changed == prev_mode # None /\ prev_mode # edge.mode
        new_transfers == IF mode_changed THEN s.transfers[current] + 1
                         ELSE s.transfers[current]
        composite == composite_score(w, new_cost, new_time, new_transfers,
                                     mode_changed, edge)
    IN  IF neighbor \in s.visited THEN s
        ELSE IF composite < s.distances[neighbor]
        THEN [s EXCEPT !.distances[neighbor] = composite,
                       !.costs[neighbor] = new_cost,
                       !.times[neighbor] = new_time,
                       !.distances_km[neighbor] = new_distance,
                       !.transfers[neighbor] = new_transfers,
                       !.edge_info[neighbor] = edge,
                       !.pq = @ \cup { << composite, neighbor >> }]
        ELSE s

\* relax_edge with the test of line 358 made <= instead of <.
relax_edge_on_ties(s, current, edge, w) ==
    LET neighbor == edge.destination
        new_cost == s.costs[current] + edge.cost
        new_time == s.times[current] + edge.time
        new_distance == s.distances_km[current] + edge.distance
        prev_mode == IF s.edge_info[current] # NoEdge
                     THEN s.edge_info[current].mode ELSE None
        mode_changed == prev_mode # None /\ prev_mode # edge.mode
        new_transfers == IF mode_changed THEN s.transfers[current] + 1
                         ELSE s.transfers[current]
        composite == composite_score(w, new_cost, new_time, new_transfers,
                                     mode_changed, edge)
    IN  IF neighbor \in s.visited THEN s
        ELSE IF composite <= s.distances[neighbor]
        THEN [s EXCEPT !.distances[neighbor] = composite,
                       !.costs[neighbor] = new_cost,
                       !.times[neighbor] = new_time,
                       !.distances_km[neighbor] = new_distance,
                       !.transfers[neighbor] = new_transfers,
                       !.previous[neighbor] = current,
                       !.edge_info[neighbor] = edge,
                       !.pq = @ \cup { << composite, neighbor >> }]
        ELSE s

\* relax_edge without the test of line 321 (neighbor in visited).
relax_edge_without_visited_test(s, current, edge, w) ==
    LET neighbor == edge.destination
        new_cost == s.costs[current] + edge.cost
        new_time == s.times[current] + edge.time
        new_distance == s.distances_km[current] + edge.distance
        prev_mode == IF s.edge_info[current] # NoEdge
                     THEN s.edge_info[current].mode ELSE None
        mode_changed == prev_mode # None /\ prev_mode # edge.mode
        new_transfers == IF mode_changed THEN s.transfers[current] + 1
                         ELSE s.transfers[current]
        composite == composite_score(w, new_cost, new_time, new_transfers,
                                     mode_changed, edge)
    IN  IF composite < s.distances[neighbor]
        THEN [s EXCEPT !.distances[neighbor] = composite,
                       !.costs[neighbor] = new_cost,
                       !.times[neighbor] = new_time,
                       !.distances_km[neighbor] = new_distance,
                       !.transfers[neighbor] = new_transfers,
                       !.previous[neighbor] = current,
                       !.edge_info[neighbor] = edge,
                       !.pq = @ \cup { << composite, neighbor >> }]
        ELSE s

\* relax_edge with the test of lines 331 and 336 made on the mode alone
\* (prev_mode != edge['mode'] without `prev_mode and`).
relax_edge_first_edge_counts(s, current, edge, w) ==
    LET neighbor == edge.destination
        new_cost == s.costs[current] + edge.cost
        new_time == s.times[current] + edge.time
        new_distance == s.distances_km[current] + edge.distance
        prev_mode == IF s.edge_info[current] # NoEdge
                     THEN s.edge_info[current].mode ELSE None
        mode_changed == prev_mode # edge.mode
        new_transfers == IF mode_changed THEN s.transfers[current] + 1
                         ELSE s.transfers[current]
        composite == composite_score(w, new_cost, new_time, new_transfers,
                                     mode_changed, edge)
    IN  IF neighbor \in s.visited THEN s
        ELSE IF composite < s.distances[neighbor]
        THEN [s EXCEPT !.distances[neighbor] = composite,
                       !.costs[neighbor] = new_cost,
                       !.times[neighbor] = new_time,
                       !.distances_km[neighbor] = new_distance,
                       !.transfers[neighbor] = new_transfers,
                       !.previous[neighbor] = current,
                       !.edge_info[neighbor] = edge,
                       !.pq = @ \cup { << composite, neighbor >> }]
        ELSE s

\* relax_edge with new_cost the cost of the edge alone (line 324 without
\* costs[current]).
relax_edge_cost_of_edge(s, current, edge, w) ==
    LET neighbor == edge.destination
        new_cost == edge.cost
        new_time == s.times[current] + edge.time
        new_distance == s.distances_km[current] + edge.distance
        prev_mode == IF s.edge_info[current] # NoEdge
                     THEN s.edge_info[current].mode ELSE None
        mode_changed == prev_mode # None /\ prev_mode # edge.mode
        new_transfers == IF mode_changed THEN s.transfers[current] + 1
                         ELSE s.transfers[current]
        composite == composite_score(w, new_cost, new_time, new_transfers,
                                     mode_changed, edge)
    IN  IF neighbor \in s.visited THEN s
        ELSE IF composite < s.distances[neighbor]
        THEN [s EXCEPT !.distances[neighbor] = composite,
                       !.costs[neighbor] = new_cost,
                       !.times[neighbor] = new_time,
                       !.distances_km[neighbor] = new_distance,
                       !.transfers[neighbor] = new_transfers,
                       !.previous[neighbor] = current,
                       !.edge_info[neighbor] = edge,
                       !.pq = @ \cup { << composite, neighbor >> }]
        ELSE s

\* Lines 319-366: the body of the for loop, for one edge out of current.
relax_edge(s, current, edge, w) ==
    LET neighbor == edge.destination
        new_cost == s.costs[current] + edge.cost
        new_time == s.times[current] + edge.time
        new_distance == s.distances_km[current] + edge.distance
        prev_mode == IF s.edge_info[current] # NoEdge
                     THEN s.edge_info[current].mode ELSE None
        mode_changed == prev_mode # None /\ prev_mode # edge.mode
        new_transfers == IF mode_changed THEN s.transfers[current] + 1
                         ELSE s.transfers[current]
        composite == composite_score(w, new_cost, new_time, new_transfers,
                                     mode_changed, edge)
    IN  IF neighbor \in s.visited THEN s
        ELSE IF composite < s.distances[neighbor]
        THEN [s EXCEPT !.distances[neighbor] = composite,
                       !.costs[neighbor] = new_cost,
                       !.times[neighbor] = new_time,
                       !.distances_km[neighbor] = new_distance,
                       !.transfers[neighbor] = new_transfers,
                       !.previous[neighbor] = current,
                       !.edge_info[neighbor] = edge,
                       !.pq = @ \cup { << composite, neighbor >> }]
        ELSE s

\* dijkstra_pop without the early exit of lines 311-312.
dijkstra_pop_without_break(g, s, end) ==
    LET top == heap_min(s.pq)
        current == top[2]
        popped == [s EXCEPT !.pq = @ \ { top }]
        marked == [popped EXCEPT !.visited = @ \cup { current }]
    IN  IF current \in s.visited THEN [state |-> popped, at |-> "while"]
        ELSE IF current \notin DOMAIN g THEN [state |-> marked, at |-> "while"]
        ELSE [state |-> [marked EXCEPT !.current = current, !.edge_i = 1],
              at |-> "for"]

\* dijkstra_pop without the test of line 315 (current not in self.graph).
dijkstra_pop_without_graph_test(g, s, end) ==
    LET top == heap_min(s.pq)
        current == top[2]
        popped == [s EXCEPT !.pq = @ \ { top }]
        marked == [popped EXCEPT !.visited = @ \cup { current }]
    IN  IF current \in s.visited THEN [state |-> popped, at |-> "while"]
        ELSE IF current = end THEN [state |-> marked, at |-> "return"]
        ELSE [state |-> [marked EXCEPT !.current = current, !.edge_i = 1],
              at |-> "for"]

\* Lines 303-316: heappop and the tests before the for loop.  at tells where
\* the search continues: the while test, the for loop, or the return after
\* break.
dijkstra_pop(g, s, end) ==
    LET top == heap_min(s.pq)
        current == top[2]
        popped == [s EXCEPT !.pq = @ \ { top }]
        marked == [popped EXCEPT !.visited = @ \cup { current }]
    IN  IF current \in s.visited THEN [state |-> popped, at |-> "while"]
        ELSE IF current = end THEN [state |-> marked, at |-> "return"]
        ELSE IF current \notin DOMAIN g THEN [state |-> marked, at |-> "while"]
        ELSE [state |-> [marked EXCEPT !.current = current, !.edge_i = 1],
              at |-> "for"]

\* walk_back without the reverse of line 388.
RECURSIVE walk_back_unreversed(_, _)
walk_back_unreversed(previous, current) ==
    IF current = None THEN << >>
    ELSE << current >> \o walk_back_unreversed(previous, previous[current])

\* Lines 380-388: the names from end back along previous, reversed.
RECURSIVE walk_back(_, _)
walk_back(previous, current) ==
    IF current = None THEN << >>
    ELSE Append(walk_back(previous, previous[current]), current)

\* round(x, n) of Python on a non-negative value: to the nearest multiple
\* of q, a half going to the even multiple.
round_to(x, q) ==
    LET lo == (x \div q) * q
        r == x - lo
    IN  IF 2 * r < q THEN lo
        ELSE IF 2 * r > q THEN lo + q
        ELSE IF (x \div q) % 2 = 0 THEN lo ELSE lo + q

round2(x) == round_to(x, Unit \div 100)   \* round(x, 2)
round1(x) == round_to(x, Unit \div 10)    \* round(x, 1)

\* path_step without the branch of the starting point (i == 0).
path_step_without_start(locs, s, path, i) ==
    LET loc == path[i]
        edge == s.edge_info[loc]
    IN  IF edge # NoEdge
        THEN [location |-> loc, type |-> Get(locs, loc).type,
              mode |-> edge.mode,
              segment_time |-> round1(edge.time),
              segment_cost |-> round2(edge.cost),
              segment_distance |-> round2(edge.distance)]
        ELSE [location |-> loc, type |-> Get(locs, loc).type,
              mode |-> "unknown",
              segment_time |-> 0, segment_cost |-> 0, segment_distance |-> 0]

\* path_step with the segment values not rounded.
path_step_unrounded(locs, s, path, i) ==
    LET loc == path[i]
        edge == s.edge_info[loc]
    IN  IF i = 1
        THEN [location |-> loc, type |-> Get(locs, loc).type, mode |-> "start",
              segment_time |-> 0, segment_cost |-> 0, segment_distance |-> 0]
        ELSE IF edge # NoEdge
        THEN [location |-> loc, type |-> Get(locs, loc).type,
              mode |-> edge.mode,
              segment_time |-> edge.time,
              segment_cost |-> edge.cost,
              segment_distance |-> edge.distance]
        ELSE [location |-> loc, type |-> Get(locs, loc).type,
              mode |-> "unknown",
              segment_time |-> 0, segment_cost |-> 0, segment_distance |-> 0]

\* Lines 396-431: one step of the detailed path.
path_step(locs, s, path, i) ==
    LET loc == path[i]
        edge == s.edge_info[loc]
    IN  IF i = 1
        THEN [location |-> loc, type |-> Get(locs, loc).type, mode |-> "start",
              segment_time |-> 0, segment_cost |-> 0, segment_distance |-> 0]
        ELSE IF edge # NoEdge
        THEN [location |-> loc, type |-> Get(locs, loc).type,
              mode |-> edge.mode,
              segment_time |-> round1(edge.time),
              segment_cost |-> round2(edge.cost),
              segment_distance |-> round2(edge.distance)]
        ELSE [location |-> loc, type |-> Get(locs, loc).type,
              mode |-> "unknown",
              segment_time |-> 0, segment_cost |-> 0, segment_distance |-> 0]

\* reconstruct_path that also rejects a path of one edge.
reconstruct_path_without_direct(locs, start, end, s) ==
    LET path == walk_back(s.previous, end)
    IN  IF path = << >> \/ path[1] # start \/ Len(path) = 2 THEN << >>
        ELSE [i \in 1..Len(path) |-> path_step(locs, s, path, i)]

\* _reconstruct_path
reconstruct_path(locs, start, end, s) ==
    LET path == walk_back(s.previous, end)
    IN  IF path = << >> \/ path[1] # start THEN << >>
        ELSE [i \in 1..Len(path) |-> path_step(locs, s, path, i)]

\* make_route with the totals not rounded.
make_route_unrounded(strategy, s, end, path) ==
    [strategy |-> strategy.name,
     total_cost |-> s.costs[end],
     total_time |-> s.times[end],
     total_distance |-> s.distances_km[end],
     num_segments |-> Len(path) - 1,
     path |-> path]

\* Lines 254-261: the route record of one strategy.
make_route(strategy, s, end, path) ==
    [strategy |-> strategy.name,
     total_cost |-> round2(s.costs[end]),
     total_time |-> round1(s.times[end]),
     total_distance |-> round2(s.distances_km[end]),
     num_segments |-> Len(path) - 1,
     path |-> path]

\* Lines 250-261: what one finished search adds to all_routes.
collect_route(locs, routes, strategy, s, start, end) ==
    IF s.previous[end] # None
    THEN LET path == reconstruct_path(locs, start, end, s)
         IN  IF path # << >>
             THEN Append(routes, make_route(strategy, s, end, path))
             ELSE routes
    ELSE routes

\* path_key of a route: its location names in order.
path_key(route) == [i \in 1..Len(route.path) |-> route.path[i].location]

\* remove_duplicates without the test of line 269: every route is kept.
remove_duplicates_keep_all(routes, i, seen_paths, unique_routes) ==
    unique_routes \o SubSeq(routes, i, Len(routes))

\* remove_duplicates keeping the last route of every path_key instead of
\* the first.
remove_duplicates_keep_last(routes, i, seen_paths, unique_routes) ==
    LET kept == SelectSeq([k \in 1..Len(routes) |-> k],
                          LAMBDA k : /\ k >= i
                                     /\ \A m \in (k + 1)..Len(routes) :
                                          path_key(routes[m])
                                            # path_key(routes[k]))
    IN  unique_routes \o [k \in 1..Len(kept) |-> routes[kept[k]]]

\* Lines 264-271: the first route of every path_key, in order.
RECURSIVE remove_duplicates(_, _, _, _)
remove_duplicates(routes, i, seen_paths, unique_routes) ==
    IF i > Len(routes) THEN unique_routes
    ELSE IF path_key(routes[i]) \notin seen_paths
         THEN remove_duplicates(routes, i + 1,
                                seen_paths \cup { path_key(routes[i]) },
                                Append(unique_routes, routes[i]))
         ELSE remove_duplicates(routes, i + 1, seen_paths, unique_routes)

\* Line 274: the sort key, total_cost * 0.6 + total_time * 0.4, in tenths
\* of a unit.
route_key(r) == 6 * r.total_cost + 4 * r.total_time

\* sort_routes without the sort of line 274.
sort_routes_unsorted(routes) == routes

sort_routes(routes) ==
    StableSort(routes, [i \in 1..Len(routes) |-> route_key(routes[i])])

\* aggregate without the test of line 276: the empty list is returned.
aggregate_without_error(routes, start, end) ==
    sort_routes(remove_duplicates(routes, 1, {}, << >>))

\* Lines 263-279: the value returned after the four searches.
aggregate(routes, start, end) ==
    LET unique_routes == sort_routes(remove_duplicates(routes, 1, {}, << >>))
    IN  IF unique_routes = << >>
        THEN << [error |-> "NoRouteFound", start |-> start, end |-> end] >>
        ELSE unique_routes

\* display_routes, "Verify totals": sum([s[field] for s in route['path']]).
RECURSIVE sum_segments(_, _, _)
sum_segments(path, field, i) ==
    IF i > Len(path) THEN 0
    ELSE path[i][field] + sum_segments(path, field, i + 1)

\* validate without the test of line 228.
validate_without_identical(locs, start, end) ==
    IF start \notin Keys(locs)
    THEN << [error |-> "UnknownLocation", role |-> "Start", name |-> start] >>
    ELSE IF end \notin Keys(locs)
    THEN << [error |-> "UnknownLocation", role |-> "End", name |-> end] >>
    ELSE << >>

\* validate with the test of line 228 made first.
validate_identical_first(locs, start, end) ==
    IF start = end
    THEN << [error |-> "IdenticalEndpoints"] >>
    ELSE IF start \notin Keys(locs)
    THEN << [error |-> "UnknownLocation", role |-> "Start", name |-> start] >>
    ELSE IF end \notin Keys(locs)
    THEN << [error |-> "UnknownLocation", role |-> "End", name |-> end] >>
    ELSE << >>

\* Lines 223-229: the error of a query that is not searched, or << >>.
validate(locs, start, end) ==
    IF start \notin Keys(locs)
    THEN << [error |-> "UnknownLocation", role |-> "Start", name |-> start] >>
    ELSE IF end \notin Keys(locs)
    THEN << [error |-> "UnknownLocation", role |-> "End", name |-> end] >>
    ELSE IF start = end
    THEN << [error |-> "IdenticalEndpoints"] >>
    ELSE << >>

-----------------------------------------------------------------------------
(* A call run from its first line to its return.                           *)

\* Lines 318-366: the for loop over edges[i..], one relax_edge each.
RECURSIVE relax_edges(_, _, _, _, _)
relax_edges(s, current, edges, i, w) ==
    IF i > Len(edges) THEN s
    ELSE relax_edges(relax_edge(s, current, edges[i], w), current, edges,
                     i + 1, w)

\* Lines 302-366: the while loop, from the search state s to the state at
\* the return.
RECURSIVE dijkstra_loop(_, _, _, _)
dijkstra_loop(g, s, end, w) ==
    IF s.pq = {} THEN s
    ELSE LET it == dijkstra_pop(g, s, end)
         IN  IF it.at = "return" THEN it.state
             ELSE IF it.at = "while" THEN dijkstra_loop(g, it.state, end, w)
             ELSE dijkstra_loop(
                    g,
                    relax_edges([it.state EXCEPT !.current = None,
                                                 !.edge_i = 0],
                                it.state.current,
                                defaultdict_getitem(g, it.state.current)
                                  [it.state.current],
                                1, w),
                    end, w)

\* _dijkstra
dijkstra(locs, g, start, end, w) ==
    dijkstra_loop(g, dijkstra_init(locs, start), end, w)

\* Lines 241-261: the for loop over strategies[i..].
RECURSIVE collect_routes(_, _, _, _, _, _)
collect_routes(locs, g, start, end, routes, i) ==
    IF i > Len(strategies) THEN routes
    ELSE collect_routes(
           locs, g, start, end,
           collect_route(locs, routes, strategies[i],
                         dijkstra(locs, g, start, end, strategies[i]),
                         start, end),
           i + 1)

\* find_optimized_routes
find_optimized_routes(locs, g, start, end) ==
    LET error == validate(locs, start, end)
    IN  IF error # << >> THEN error
        ELSE aggregate(collect_routes(locs, g, start, end, << >>, 1),
                       start, end)

-----------------------------------------------------------------------------
(* Queries.                                                                *)

\* test_cases of PerformanceAnalyzer: the benchmark's queries.
test_cases ==
    << << "Aluva Metro", "Pulinchodu Metro" >>,
       << "Edapally Metro", "Palarivattom Metro" >>,
       << "Lulu Mall Edapally", "M.G Road Metro" >>,
       << "Medical Trust Hospital Edapally", "Oberon Mall" >>,
       << "Aluva Town", "Fort Kochi" >>,
       << "Kakkanad Infopark", "Marine Drive" >>,
       << "CUSAT Campus", "Thripunithura Town" >>,
       << "Aluva Metro", "Thripunithura Metro" >>,
       << "Lulu Mall Edapally", "Fort Kochi" >> >>

\* Small catalogs on one meridian: two stations, gap apart, and two places,
\* one south of the first station and one north of it.  Coordinates in
\* 1e-4 degree; one such unit of latitude is 11.1 m.
Gaps == << 100, 900, 300 >>

Offsets == << 2500, 120, 60, 500, 1200, 40, 180 >>

NumGaps == 2

NumOffsets == 5

small_metro(gap) ==
    << << "S1", 100 * 1000, 763 * 1000, "Zone 1" >>,
       << "S2", 100 * 1000 + gap, 763 * 1000, "Zone 1" >> >>

small_places(south, north) ==
    << << "P1", 100 * 1000 - south, 763 * 1000, "residential" >>,
       << "P2", 100 * 1000 + north, 763 * 1000, "commercial" >> >>

\* The queries of the model: the benchmark's, and every pair of names
\* among the first NumQueryNames names of query_names, the names of the
\* small catalogs and a name that no catalog holds.
query_names ==
    << "Aluva Metro", "Aluva Town", "Medical Trust Hospital Edapally",
       "Pulinchodu Metro", "Kalamassery Town", "Oberon Mall" >>

NumQueryNames == 3

QueryNames ==
    { query_names[i] : i \in 1..NumQueryNames }
      \cup { "S1", "S2", "P1", "P2", "NoSuchPlace" }

Queries ==
    { test_cases[i] : i \in 1..Len(test_cases) }
      \cup (QueryNames \X QueryNames)

-----------------------------------------------------------------------------
(* The window (src/planner_gui.py): LocationRouteGUI reads the two         *)
(* comboboxes, starts a worker thread that calls find_optimized_routes,    *)
(* and shows the result from a callback that the worker schedules on the   *)
(* main thread.  Handlers of the main thread run one at a time; a worker   *)
(* runs between them, one Tk call at a time.                               *)

START_PLACEHOLDER == "Search or select starting location..."

END_PLACEHOLDER == "Search or select destination..."

\* No messagebox has been shown.
NoMessage == [title |-> "", message |-> "", name |-> ""]

\* LocationRouteGUI.__init__: the fields of the window once it is built.
gui_init ==
    [start_location_var |-> START_PLACEHOLDER,
     end_location_var |-> END_PLACEHOLDER,
     calculate_btn |-> "normal",
     view_map_btn |-> "disabled",
     gmaps_btn |-> "disabled",
     progress |-> "hidden",
     results_header |-> [text |-> "Select locations", start |-> None,
                         end |-> None],
     results_container |-> << "welcome" >>,
     current_routes |-> << >>,
     current_start |-> None,
     current_end |-> None,
     messagebox |-> NoMessage,   \* the messagebox shown last
     threads |-> << >>,          \* the worker threads that run
     after |-> << >>]            \* the callbacks given to root.after

\* swap_locations
swap_locations(g) ==
    LET start == g.start_location_var
        end == g.end_location_var
    IN  [g EXCEPT !.start_location_var = end, !.end_location_var = start]

\* validate_inputs: the messagebox it shows, or NoMessage when it returns
\* True.
validate_inputs(g, locs) ==
    LET start == g.start_location_var
        end == g.end_location_var
    IN  IF start = "" \/ start = START_PLACEHOLDER
        THEN [title |-> "Error",
              message |-> "Please select a starting location", name |-> ""]
        ELSE IF end = "" \/ end = END_PLACEHOLDER
        THEN [title |-> "Error",
              message |-> "Please select a destination", name |-> ""]
        ELSE IF start \notin Keys(locs)
        THEN [title |-> "Error",
              message |-> "Starting location not found", name |-> start]
        ELSE IF end \notin Keys(locs)
        THEN [title |-> "Error",
              message |-> "Destination not found", name |-> end]
        ELSE IF start = end
        THEN [title |-> "Warning",
              message |-> "Start and destination are the same!",
              name |-> ""]
        ELSE NoMessage

\* The worker thread that calculate_routes starts, before its first line.
\* accepted holds the two values that validate_inputs read for the click.
new_thread(g) ==
    [pc |-> "get_start", start |-> None, end |-> None,
     accepted |-> << g.start_location_var, g.end_location_var >>]

\* calculate_routes without the config(state='disabled') of line 493.
calculate_routes_without_disable(g, locs) ==
    LET shown == validate_inputs(g, locs)
    IN  IF shown # NoMessage THEN [g EXCEPT !.messagebox = shown]
        ELSE [g EXCEPT !.view_map_btn = "disabled",
                       !.gmaps_btn = "disabled",
                       !.progress = "running",
                       !.results_container = << >>,
                       !.results_header =
                          [text |-> "Calculating optimal routes...",
                           start |-> None, end |-> None],
                       !.threads = Append(@, new_thread(g))]

\* calculate_routes
calculate_routes(g, locs) ==
    LET shown == validate_inputs(g, locs)
    IN  IF shown # NoMessage THEN [g EXCEPT !.messagebox = shown]
        ELSE [g EXCEPT !.calculate_btn = "disabled",
                       !.view_map_btn = "disabled",
                       !.gmaps_btn = "disabled",
                       !.progress = "running",
                       !.results_container = << >>,
                       !.results_header =
                          [text |-> "Calculating optimal routes...",
                           start |-> None, end |-> None],
                       !.threads = Append(@, new_thread(g))]

\* A sequence without its entry i.
Remove(seq, i) == SubSeq(seq, 1, i - 1) \o SubSeq(seq, i + 1, Len(seq))

\* _display_results(start, end, routes), run by the main loop.
display_results(g, start, end, routes) ==
    LET shown == [g EXCEPT !.progress = "hidden",
                           !.calculate_btn = "normal",
                           !.results_header = [text |-> "Routes",
                                               start |-> start, end |-> end]]
    IN  IF routes = << >> \/ "error" \in DOMAIN routes[1]
        THEN [shown EXCEPT !.results_container =
                << IF routes = << >> THEN "No routes found"
                   ELSE routes[1].error >>]
        ELSE [shown EXCEPT !.current_routes = routes,
                           !.current_start = start,
                           !.current_end = end,
                           !.view_map_btn = "normal",
                           !.gmaps_btn = "normal",
                           !.results_container =
                              [i \in 1..Len(routes) |-> routes[i].strategy]]

\* _show_error(error_message), run by the main loop.
show_error(g, error_message) ==
    [g EXCEPT !.progress = "hidden",
              !.calculate_btn = "normal",
              !.messagebox = [title |-> "Error",
                              message |-> "An error occurred",
                              name |-> error_message]]

-----------------------------------------------------------------------------
(* The state machine.                                                      *)

\* The locals of a call that has not been made.
IdleContext ==
    [pc |-> "idle", start_location |-> None, end_location |-> None,
     strategy_idx |-> 0, search |-> NoSearch, all_routes |-> << >>,
     result |-> << >>]

\* The caller and the locals of find_optimized_routes before any call, no
\* second call, and the window as it is built.
Idle ==
    /\ pc = "idle"
    /\ start_location = None
    /\ end_location = None
    /\ strategy_idx = 0
    /\ search = NoSearch
    /\ all_routes = << >>
    /\ result = << >>
    /\ parked = IdleContext
    /\ gui = gui_init

\* The optimizer constructed from the catalog of two lists.
Constructed(metro, places) ==
    LET self == Optimizer(metro, places)
    IN  /\ locations = self.locations
        /\ metro_stations = self.metro_stations
        /\ graph = self.graph

\* The program: the optimizer of the Kochi catalog.
Init == Constructed(metro_data, popular_places) /\ Idle

\* The optimizer of a small catalog.
InitSmall ==
    /\ \E g \in 1..NumGaps, s \in 1..NumOffsets, n \in 1..NumOffsets :
         Constructed(small_metro(Gaps[g]),
                     small_places(Offsets[s], Offsets[n]))
    /\ Idle

\* find_optimized_routes is called: lines 223-239.
Call(start, end) ==
    /\ pc = "idle"
    /\ start_location' = start
    /\ end_location' = end
    /\ all_routes' = << >>
    /\ search' = NoSearch
    /\ LET error == validate(locations, start, end)
       IN  IF error # << >>
           THEN /\ result' = error
                /\ strategy_idx' = 0
                /\ pc' = "done"
           ELSE /\ result' = << >>
                /\ strategy_idx' = 1
                /\ pc' = "strategy"
    /\ UNCHANGED << locations, metro_stations, graph >>
    /\ UNCHANGED << parked, gui >>

\* _dijkstra is entered for the current strategy: lines 285-300.
DijkstraStart ==
    /\ pc = "strategy"
    /\ search' = dijkstra_init(locations, start_location)
    /\ pc' = "dijkstra"
    /\ UNCHANGED << locations, metro_stations, graph, start_location,
                    end_location, strategy_idx, all_routes, result >>
    /\ UNCHANGED << parked, gui >>

\* The while loop pops a node: lines 302-316, and `for edge in
\* self.graph[current]` reads the node's list (line 318); a node with an
\* empty list takes the loop back to the while test.
DijkstraPop ==
    /\ pc = "dijkstra"
    /\ search.pq # {}
    /\ LET it == dijkstra_pop(graph, search, end_location)
           g == IF it.at = "for"
                THEN defaultdict_getitem(graph, it.state.current)
                ELSE graph
           empty == it.at = "for" /\ g[it.state.current] = << >>
       IN  /\ graph' = g
           /\ search' = IF empty
                         THEN [it.state EXCEPT !.current = None, !.edge_i = 0]
                         ELSE it.state
           /\ pc' = CASE it.at = "while" -> "dijkstra"
                      [] it.at = "for" -> IF empty THEN "dijkstra" ELSE "relax"
                      [] it.at = "return" -> "collect"
    /\ UNCHANGED << locations, metro_stations, start_location,
                    end_location, strategy_idx, all_routes, result >>
    /\ UNCHANGED << parked, gui >>

\* The for loop visits one edge of the popped node: lines 318-366.
DijkstraRelax ==
    /\ pc = "relax"
    /\ LET edges == graph[search.current]
           s == relax_edge(search, search.current, edges[search.edge_i],
                           strategies[strategy_idx])
       IN  IF search.edge_i < Len(edges)
           THEN /\ search' = [s EXCEPT !.edge_i = @ + 1]
                /\ pc' = "relax"
           ELSE /\ search' = [s EXCEPT !.edge_i = 0, !.current = None]
                /\ pc' = "dijkstra"
    /\ UNCHANGED << locations, metro_stations, graph, start_location,
                    end_location, strategy_idx, all_routes, result >>
    /\ UNCHANGED << parked, gui >>

\* The while loop ends with the queue empty: line 302, then 368.
DijkstraExit ==
    /\ pc = "dijkstra"
    /\ search.pq = {}
    /\ pc' = "collect"
    /\ UNCHANGED << locations, metro_stations, graph, start_location,
                    end_location, strategy_idx, search, all_routes, result >>
    /\ UNCHANGED << parked, gui >>

\* The search has returned: lines 250-261, and the next strategy.
Collect ==
    /\ pc = "collect"
    /\ all_routes' = collect_route(locations, all_routes,
                                   strategies[strategy_idx], search,
                                   start_location, end_location)
    /\ search' = NoSearch
    /\ IF strategy_idx < Len(strategies)
       THEN /\ strategy_idx' = strategy_idx + 1
            /\ pc' = "strategy"
       ELSE /\ strategy_idx' = strategy_idx
            /\ pc' = "aggregate"
    /\ UNCHANGED << locations, metro_stations, graph, start_location,
                    end_location, result >>
    /\ UNCHANGED << parked, gui >>

\* Lines 263-279: deduplicate, rank, return.
Aggregate ==
    /\ pc = "aggregate"
    /\ result' = aggregate(all_routes, start_location, end_location)
    /\ pc' = "done"
    /\ UNCHANGED << locations, metro_stations, graph, start_location,
                    end_location, strategy_idx, search, all_routes >>
    /\ UNCHANGED << parked, gui >>

\* The caller has the result; the optimizer is ready for the next call.
Return ==
    /\ pc = "done"
    /\ pc' = "idle"
    /\ start_location' = None
    /\ end_location' = None
    /\ strategy_idx' = 0
    /\ all_routes' = << >>
    /\ result' = << >>
    /\ UNCHANGED << locations, metro_stations, graph, search >>
    /\ UNCHANGED << parked, gui >>

\* The locals of the call that runs.
Context ==
    [pc |-> pc, start_location |-> start_location,
     end_location |-> end_location, strategy_idx |-> strategy_idx,
     search |-> search, all_routes |-> all_routes, result |-> result]

\* search_shared_visited: the tables a call finds when it runs again, had
\* visited been one set of the optimizer instead of a local of _dijkstra.
search_shared_visited(own, other) == [own EXCEPT !.visited = other.visited]

\* The tables a call finds when it runs again: its own, the locals that
\* lines 285-300 made for it, whatever the other call did meanwhile.
search_of_call(own, other) == own

\* Two calls on one optimizer, as two threads make them: the call that
\* runs stops at any point and the other call runs on.
Switch ==
    /\ parked' = Context
    /\ pc' = parked.pc
    /\ start_location' = parked.start_location
    /\ end_location' = parked.end_location
    /\ strategy_idx' = parked.strategy_idx
    /\ search' = search_of_call(parked.search, search)
    /\ all_routes' = parked.all_routes
    /\ result' = parked.result
    /\ UNCHANGED << locations, metro_stations, graph, gui >>

Next ==
    \/ \E q \in Queries : Call(q[1], q[2])
    \/ DijkstraStart
    \/ DijkstraPop
    \/ DijkstraRelax
    \/ DijkstraExit
    \/ Collect
    \/ Aggregate
    \/ Return

Spec == Init /\ [][Next]_vars

\* The same program over the Kochi catalog and over every small catalog.
SpecAll == (Init \/ InitSmall) /\ [][Next]_vars

\* The queries of two interleaved calls: the first NumThreadQueries of
\* thread_queries.
thread_queries ==
    << << "Aluva Metro", "Pulinchodu Metro" >>, << "P1", "S2" >>,
       << "S1", "P1" >>, << "S2", "S2" >>, << "P2", "S1" >> >>

NumThreadQueries == 4

ThreadQueries == { thread_queries[i] : i \in 1..NumThreadQueries }

\* The small catalogs of two interleaved calls.
NumThreadOffsets == 2

InitThreads ==
    /\ \/ Constructed(metro_data, popular_places)
       \/ \E s \in 1..NumThreadOffsets, n \in 1..NumThreadOffsets :
            Constructed(small_metro(Gaps[1]),
                        small_places(Offsets[s], Offsets[n]))
    /\ Idle

NextThreads ==
    \/ \E q \in ThreadQueries : Call(q[1], q[2])
    \/ DijkstraStart
    \/ DijkstraPop
    \/ DijkstraRelax
    \/ DijkstraExit
    \/ Collect
    \/ Aggregate
    \/ Return
    \/ Switch

\* Two calls on one optimizer, interleaved at any step.
SpecThreads == InitThreads /\ [][NextThreads]_vars

\* _dijkstra is straight-line code inside one call: a search that can take
\* its next step takes it.
SpecFair ==
    /\ SpecAll
    /\ WF_vars(DijkstraPop)
    /\ WF_vars(DijkstraRelax)
    /\ WF_vars(DijkstraExit)

-----------------------------------------------------------------------------
(* The steps of the window.                                                *)

\* The texts that the user puts into a combobox, by typing or by choosing
\* from the list: the first NumGuiTexts of gui_texts.
gui_texts ==
    << "Aluva Metro", "Pulinchodu Metro", "Nowhere", "",
       "Companypady Metro" >>

NumGuiTexts == 3

GuiTexts == { gui_texts[i] : i \in 1..NumGuiTexts }

\* The worker threads that the model lets run at once.
MaxThreads == 2

\* The user edits the start combobox (textvariable start_location_var).
SelectStart(text) ==
    /\ gui.start_location_var # text
    /\ gui' = [gui EXCEPT !.start_location_var = text]
    /\ UNCHANGED << locations, metro_stations, graph, pc, start_location,
                    end_location, strategy_idx, search, all_routes, result,
                    parked >>

\* The user edits the destination combobox (textvariable end_location_var).
SelectDestination(text) ==
    /\ gui.end_location_var # text
    /\ gui' = [gui EXCEPT !.end_location_var = text]
    /\ UNCHANGED << locations, metro_stations, graph, pc, start_location,
                    end_location, strategy_idx, search, all_routes, result,
                    parked >>

\* The user clicks the swap button.
SwapLocations ==
    /\ gui' = swap_locations(gui)
    /\ gui' # gui
    /\ UNCHANGED << locations, metro_stations, graph, pc, start_location,
                    end_location, strategy_idx, search, all_routes, result,
                    parked >>

\* The user clicks the calculate button; a disabled tk.Button does not run
\* its command.
ClickCalculate ==
    /\ gui.calculate_btn = "normal"
    /\ Len(gui.threads) < MaxThreads
    /\ gui' = calculate_routes(gui, locations)
    /\ UNCHANGED << locations, metro_stations, graph, pc, start_location,
                    end_location, strategy_idx, search, all_routes, result,
                    parked >>

\* Line 513 of worker i: start = self.start_location_var.get().
ThreadGetStart(i) ==
    /\ gui.threads[i].pc = "get_start"
    /\ gui' = [gui EXCEPT !.threads[i].start = gui.start_location_var,
                          !.threads[i].pc = "get_end"]
    /\ UNCHANGED << locations, metro_stations, graph, pc, start_location,
                    end_location, strategy_idx, search, all_routes, result,
                    parked >>

\* Line 514 of worker i: end = self.end_location_var.get().
ThreadGetEnd(i) ==
    /\ gui.threads[i].pc = "get_end"
    /\ gui' = [gui EXCEPT !.threads[i].end = gui.end_location_var,
                          !.threads[i].pc = "call"]
    /\ UNCHANGED << locations, metro_stations, graph, pc, start_location,
                    end_location, strategy_idx, search, all_routes, result,
                    parked >>

\* Lines 517-520 of worker i: the call of find_optimized_routes and
\* root.after(0, self._display_results, start, end, routes); the thread
\* ends.
ThreadCall(i) ==
    /\ gui.threads[i].pc = "call"
    /\ LET t == gui.threads[i]
           routes == find_optimized_routes(locations, graph, t.start, t.end)
       IN  gui' = [gui EXCEPT
                     !.threads = Remove(@, i),
                     !.after = Append(@, [callback |-> "_display_results",
                                          start |-> t.start, end |-> t.end,
                                          routes |-> routes,
                                          error_message |-> ""])]
    /\ UNCHANGED << locations, metro_stations, graph, pc, start_location,
                    end_location, strategy_idx, search, all_routes, result,
                    parked >>

\* Lines 522-523 of worker i: a Tk call of the try block, made off the main
\* thread, raises; the handler gives _show_error to root.after and the
\* thread ends.
ThreadRaise(i) ==
    /\ gui.threads[i].pc \in { "get_start", "get_end" }
    /\ gui' = [gui EXCEPT
                 !.threads = Remove(@, i),
                 !.after = Append(@, [callback |-> "_show_error",
                                      start |-> None, end |-> None,
                                      routes |-> << >>,
                                      error_message |-> "RuntimeError"])]
    /\ UNCHANGED << locations, metro_stations, graph, pc, start_location,
                    end_location, strategy_idx, search, all_routes, result,
                    parked >>

\* The main loop runs the callback that was given to root.after first.
RunAfter ==
    /\ gui.after # << >>
    /\ LET cb == Head(gui.after)
           g == [gui EXCEPT !.after = Tail(@)]
       IN  gui' = IF cb.callback = "_display_results"
                  THEN display_results(g, cb.start, cb.end, cb.routes)
                  ELSE show_error(g, cb.error_message)
    /\ UNCHANGED << locations, metro_stations, graph, pc, start_location,
                    end_location, strategy_idx, search, all_routes, result,
                    parked >>

NextGui ==
    \/ \E text \in GuiTexts : SelectStart(text)
    \/ \E text \in GuiTexts : SelectDestination(text)
    \/ SwapLocations
    \/ ClickCalculate
    \/ \E i \in 1..Len(gui.threads) : ThreadGetStart(i)
    \/ \E i \in 1..Len(gui.threads) : ThreadGetEnd(i)
    \/ \E i \in 1..Len(gui.threads) : ThreadCall(i)
    \/ \E i \in 1..Len(gui.threads) : ThreadRaise(i)
    \/ RunAfter

\* The window over the optimizer of the Kochi catalog.
SpecGui == Init /\ [][NextGui]_vars

-----------------------------------------------------------------------------
(* Properties of find_optimized_routes.                                    *)

\* The call in progress, if any, has these arguments.
Calling == pc # "idle"

\* result is a list of routes (not the one-entry error list).
HasRoutes == pc = "done" /\ "error" \notin DOMAIN result[1]

\* The optimizer holds the hard-coded catalog of metro_data and
\* popular_places.
BuiltCatalog ==
    /\ Len(locations) = Len(Catalog)
    /\ \A i \in 1..Len(locations) : locations[i].name = Catalog[i][1]

\* C1: for every X of the catalog, find_optimized_routes(X, X) returns the
\* single entry IdenticalEndpoints and runs no search: a call with such
\* arguments is never at a search position, and it starts no strategy.
C1_IdenticalEndpoints ==
    (Calling /\ start_location \in Keys(locations)
             /\ start_location = end_location)
    => /\ pc = "done"
       /\ result = << [error |-> "IdenticalEndpoints"] >>
       /\ strategy_idx = 0
       /\ search = NoSearch
       /\ all_routes = << >>

C1_Witness ==
    /\ pc = "done"
    /\ start_location \in Keys(locations)
    /\ start_location = end_location
    /\ result[1].error = "IdenticalEndpoints"

\* C2: a query whose start or end is absent from the catalog returns
\* UnknownLocation and runs no search; the start is checked before the
\* end, and both before the identical-endpoints check.
C2_UnknownLocation ==
    /\ (Calling /\ start_location \notin Keys(locations))
       => /\ pc = "done"
          /\ result = << [error |-> "UnknownLocation", role |-> "Start",
                          name |-> start_location] >>
          /\ strategy_idx = 0
          /\ search = NoSearch
          /\ all_routes = << >>
    /\ (Calling /\ start_location \in Keys(locations)
                /\ end_location \notin Keys(locations))
       => /\ pc = "done"
          /\ result = << [error |-> "UnknownLocation", role |-> "End",
                          name |-> end_location] >>
          /\ strategy_idx = 0
          /\ search = NoSearch
          /\ all_routes = << >>

C2_Witness ==
    /\ pc = "done"
    /\ start_location \notin Keys(locations)
    /\ start_location = end_location
    /\ result[1].error = "UnknownLocation"
    /\ result[1].role = "Start"

\* C3: every route of a returned list starts at start, ends at end, and its
\* first step has mode "start" and zero segment cost, time and distance.
C3_RouteEndpoints ==
    HasRoutes =>
      \A i \in 1..Len(result) :
        LET path == result[i].path
        IN  /\ Len(path) >= 1
            /\ path[1].location = start_location
            /\ path[Len(path)].location = end_location
            /\ path[1].mode = "start"
            /\ path[1].segment_cost = 0
            /\ path[1].segment_time = 0
            /\ path[1].segment_distance = 0

C3_Witness ==
    /\ HasRoutes
    /\ \E i \in 1..Len(result) : Len(result[i].path) >= 3

\* C4: for every route returned for a pair of locations of the built
\* catalog, the sum of its steps' segment_cost equals total_cost within
\* 0.01, the sum of segment_distance equals total_distance within 0.01, and
\* the sum of segment_time equals total_time within 0.1.
C4_TotalsMatchSegments ==
    (HasRoutes /\ BuiltCatalog) =>
      \A i \in 1..Len(result) :
        LET r == result[i]
        IN  /\ Abs(sum_segments(r.path, "segment_cost", 1) - r.total_cost)
                 <= Unit \div 100
            /\ Abs(sum_segments(r.path, "segment_distance", 1)
                     - r.total_distance) <= Unit \div 100
            /\ Abs(sum_segments(r.path, "segment_time", 1) - r.total_time)
                 <= Unit \div 10

\* C5: no two routes of a returned list have the same sequence of step
\* location names.
C5_DistinctPaths ==
    HasRoutes =>
      \A i, j \in 1..Len(result) :
        i # j =>
          [k \in 1..Len(result[i].path) |-> result[i].path[k].location]
            # [k \in 1..Len(result[j].path) |-> result[j].path[k].location]

\* Two strategies found the same sequence of locations and one was dropped.
C5_Witness ==
    /\ HasRoutes
    /\ Len(result) < Len(all_routes)
    /\ Len(result) >= 2

\* C6: every returned list of routes is ascending in
\* 0.6 * total_cost + 0.4 * total_time of the reported totals.
C6_SortedByRank ==
    HasRoutes =>
      \A i \in 1..(Len(result) - 1) :
        6 * result[i].total_cost + 4 * result[i].total_time
          <= 6 * result[i + 1].total_cost + 4 * result[i + 1].total_time

\* The sort moved a route: the returned order is not the strategies' order.
C6_Witness ==
    /\ HasRoutes
    /\ Len(result) >= 2
    /\ \E i \in 1..(Len(result) - 1) :
         \E a, b \in 1..Len(strategies) :
           /\ strategies[a].name = result[i].strategy
           /\ strategies[b].name = result[i + 1].strategy
           /\ b < a

-----------------------------------------------------------------------------
(* Properties of the network.                                              *)

\* The edges of mode "metro" from a to b in the graph.
MetroEdges(a, b) ==
    IF a \in DOMAIN graph
    THEN { i \in 1..Len(graph[a]) :
             graph[a][i].mode = "metro" /\ graph[a][i].destination = b }
    ELSE {}

\* a and b are stations next to each other in the line order.
AdjacentStations(a, b) ==
    \E i \in 1..(Len(metro_stations) - 1) :
      \/ metro_stations[i].name = a /\ metro_stations[i + 1].name = b
      \/ metro_stations[i].name = b /\ metro_stations[i + 1].name = a

\* C7: the graph has a metro edge from A to B if and only if A and B are
\* stations adjacent in the line order; such an edge exists in both
\* directions, with cost 5 and time 2.5.  The network is built by the
\* constructor and no call changes it: the property is stated of the
\* optimizer between calls.
C7_MetroEdges ==
    pc = "idle" =>
      \A a, b \in Keys(locations) :
        /\ (MetroEdges(a, b) # {}) <=> AdjacentStations(a, b)
        /\ AdjacentStations(a, b) => MetroEdges(b, a) # {}
        /\ \A i \in MetroEdges(a, b) :
             /\ graph[a][i].cost = 5 * Unit
             /\ 2 * graph[a][i].time = 5 * Unit

\* The network is built; it has adjacent stations, stations that are not
\* adjacent, and locations that are not stations.
C7_Witness ==
    /\ pc = "idle"
    /\ \E a, b \in Keys(metro_stations) : AdjacentStations(a, b)
    /\ \E a, b \in Keys(metro_stations) : a # b /\ ~AdjacentStations(a, b)
    /\ Keys(locations) # Keys(metro_stations)

\* C8 as stated: in the catalog of these two stations, the query Aluva Metro
\* to Pulinchodu Metro yields a route of 2 steps, the second of mode metro,
\* with total cost 5, total time 2.5 and total distance equal to the
\* haversine distance of the two stations, a value between 0.9 and 1.0 km.
C8_AluvaPulinchodu_0910 ==
    (pc = "done" /\ start_location = "Aluva Metro"
                 /\ end_location = "Pulinchodu Metro"
                 /\ { "Aluva Metro", "Pulinchodu Metro" } \subseteq Keys(locations))
    => /\ HasRoutes
       /\ \E i \in 1..Len(result) :
            LET a == Get(locations, "Aluva Metro")
                b == Get(locations, "Pulinchodu Metro")
                d == haversine_distance(a.lat, a.lon, b.lat, b.lon)
            IN  /\ Len(result[i].path) = 2
                /\ result[i].path[2].mode = "metro"
                /\ result[i].total_cost = 5 * Unit
                /\ 2 * result[i].total_time = 5 * Unit
                /\ result[i].total_distance = d
                /\ 9 * Unit <= 10 * d
                /\ d <= 1 * Unit

\* C8, amended: in the catalog of these two stations, the query Aluva Metro
\* to Pulinchodu Metro yields one route, of 2 steps, the second of mode
\* metro, with total cost 5, total time 2.5 and total distance 1.13 km, the
\* haversine distance of the two stations (1.1313 km) rounded to two
\* decimals.
C8_AluvaPulinchodu ==
    (pc = "done" /\ start_location = "Aluva Metro"
                 /\ end_location = "Pulinchodu Metro"
                 /\ { "Aluva Metro", "Pulinchodu Metro" } \subseteq Keys(locations))
    => /\ HasRoutes
       /\ Len(result) = 1
       /\ LET a == Get(locations, "Aluva Metro")
               b == Get(locations, "Pulinchodu Metro")
               d == haversine_distance(a.lat, a.lon, b.lat, b.lon)
           IN  /\ Len(result[1].path) = 2
               /\ result[1].path[2].mode = "metro"
               /\ result[1].total_cost = 5 * Unit
               /\ 2 * result[1].total_time = 5 * Unit
               /\ d = 11313
               /\ result[1].total_distance = 11300
               /\ Abs(2 * (result[1].total_distance - d)) <= Unit \div 100

C8_Witness ==
    /\ HasRoutes
    /\ start_location = "Aluva Metro"
    /\ end_location = "Pulinchodu Metro"
    /\ all_routes # << >>
    /\ result[1].num_segments = 1

\* The locations that a directed path of the graph reaches from those of S.
RECURSIVE ReachableFrom(_)
ReachableFrom(S) ==
    LET T == S \cup UNION { { graph[n][i].destination : i \in 1..Len(graph[n]) } :
                              n \in S \cap DOMAIN graph }
    IN  IF T = S THEN S ELSE ReachableFrom(T)

\* A finished call whose endpoints are distinct catalog locations with no
\* directed path from the first to the second.
Unreachable ==
    /\ pc = "done"
    /\ start_location \in Keys(locations)
    /\ end_location \in Keys(locations)
    /\ start_location # end_location
    /\ end_location \notin ReachableFrom({ start_location })

\* C9: for distinct catalog locations start and end with no directed path
\* from start to end, find_optimized_routes returns exactly one entry, the
\* error NoRouteFound naming start and end, and no route.
C9_NoRouteFound ==
    Unreachable =>
      result = << [error |-> "NoRouteFound", start |-> start_location,
                   end |-> end_location] >>

\* Such a call has returned, after four searches that found nothing.
C9_Witness ==
    /\ Unreachable
    /\ strategy_idx = Len(strategies)
    /\ all_routes = << >>
    /\ Len(result) = 1

-----------------------------------------------------------------------------
(* Properties of _dijkstra.                                                *)

\* The longest paths that SimplePathScores follows, in edges.
MaxPathEdges == 3

\* The composites of the simple paths of at most left further edges that
\* lead to end from the path at: its last node, the cost, time and
\* transfers accumulated along it, and the mode of its last edge.  A
\* path's composite is composite_score of its accumulated values and of
\* the penalties of its last edge.
RECURSIVE SimplePathScores(_, _, _, _, _)
SimplePathScores(w, end, at, seen, left) ==
    IF left = 0 \/ at.node \notin DOMAIN graph THEN {}
    ELSE UNION {
      LET edge == graph[at.node][i]
          mode_changed == at.mode # None /\ at.mode # edge.mode
          next == [node |-> edge.destination,
                   cost |-> at.cost + edge.cost,
                   time |-> at.time + edge.time,
                   transfers |-> IF mode_changed THEN at.transfers + 1
                                 ELSE at.transfers,
                   mode |-> edge.mode]
      IN  IF edge.destination \in seen THEN {}
          ELSE IF edge.destination = end
          THEN { composite_score(w, next.cost, next.time, next.transfers,
                                 mode_changed, edge) }
          ELSE SimplePathScores(w, end, next,
                                seen \cup { edge.destination }, left - 1)
      : i \in 1..Len(graph[at.node]) }

\* A search has returned with a path to end.
Found ==
    /\ pc = "collect"
    /\ search.previous[end_location] # None

\* C10: the path _dijkstra produces for end is optimal under the composite
\* scoring: the score recorded for end is the minimum of the composites
\* of the start-to-end paths, so in the graph of the built catalog no path
\* from start to end (here: no simple path of at most MaxPathEdges edges)
\* has a smaller composite.
C10_OptimalScore ==
    (Found /\ BuiltCatalog) =>
      \A score \in SimplePathScores(
                     strategies[strategy_idx], end_location,
                     [node |-> start_location, cost |-> 0, time |-> 0,
                      transfers |-> 0, mode |-> None],
                     { start_location }, MaxPathEdges) :
        search.distances[end_location] <= score

-----------------------------------------------------------------------------
(* Properties of the strategies.                                           *)

-----------------------------------------------------------------------------
(* Properties of the built catalog.                                        *)

\* C12: for every ordered pair of distinct locations of the built catalog,
\* find_optimized_routes returns at least one route and never
\* NoRouteFound: the built graph is strongly connected, and every call
\* with two distinct catalog locations returns a list of routes.
C12_AlwaysARoute ==
    /\ (pc = "idle" /\ BuiltCatalog)
       => \A a \in Keys(locations) : ReachableFrom({ a }) = Keys(locations)
    /\ (pc = "done" /\ BuiltCatalog
                    /\ start_location \in Keys(locations)
                    /\ end_location \in Keys(locations)
                    /\ start_location # end_location)
       => /\ Len(result) >= 1
          /\ \A i \in 1..Len(result) :
               /\ "error" \notin DOMAIN result[i]
               /\ "path" \in DOMAIN result[i]

\* The benchmark's longest query has returned its routes.
C12_Witness ==
    /\ pc = "done"
    /\ BuiltCatalog
    /\ start_location = "Lulu Mall Edapally"
    /\ end_location = "Fort Kochi"
    /\ Len(result) >= 1
    /\ "path" \in DOMAIN result[1]

\* C13: after construction, no step of any find_optimized_routes call,
\* successful or not, changes the graph's adjacency lists, its key set or
\* the location catalog.
C13_GraphUnchanged ==
    [][/\ graph' = graph
       /\ DOMAIN graph' = DOMAIN graph
       /\ locations' = locations
       /\ metro_stations' = metro_stations]_vars

\* A call has returned whose searches popped a location that is no key of
\* the graph.
C13_Witness ==
    /\ pc = "done"
    /\ start_location \in Keys(locations) \ DOMAIN graph
    /\ end_location \in Keys(locations) \ { start_location }
    /\ strategy_idx = Len(strategies)

-----------------------------------------------------------------------------
(* Properties of the steps of _dijkstra.                                   *)

\* The edge that the for loop visits next, and the values that lines
\* 324-356 compute for it.
Relaxing == pc = "relax"

RelaxedEdge == graph[search.current][search.edge_i]

RelaxedModeChanged ==
    /\ search.edge_info[search.current] # NoEdge
    /\ search.edge_info[search.current].mode # RelaxedEdge.mode

RelaxedTransfers ==
    IF RelaxedModeChanged THEN search.transfers[search.current] + 1
    ELSE search.transfers[search.current]

RelaxedComposite ==
    composite_score(strategies[strategy_idx],
                    search.costs[search.current] + RelaxedEdge.cost,
                    search.times[search.current] + RelaxedEdge.time,
                    RelaxedTransfers, RelaxedModeChanged, RelaxedEdge)

\* C15: for every strategy and every relaxation of an edge out of the
\* expanded node, in the graph of the built catalog, the composite
\* computed for the neighbour is not smaller than the score recorded for
\* the expanded node.
C15_CompositeMonotone ==
    (Relaxing /\ BuiltCatalog)
    => RelaxedComposite >= search.distances[search.current]

\* A step inside one _dijkstra call: from a state of the search to the
\* next state of the same search.
SearchStep ==
    /\ pc \in { "dijkstra", "relax" }
    /\ pc' \in { "dijkstra", "relax", "collect" }

\* The seven values that the search records for a location.
Record(s, loc) ==
    << s.distances[loc], s.costs[loc], s.times[loc], s.distances_km[loc],
       s.transfers[loc], s.previous[loc], s.edge_info[loc] >>

\* C16: once a location has been popped and marked visited, its recorded
\* score, cost, time, distance, transfer count, predecessor and arrival
\* edge never change for the rest of that search (it stays visited); in
\* particular the start's predecessor stays null.
C16_VisitedFrozen ==
    [][SearchStep =>
         /\ \A loc \in search.visited :
              /\ loc \in search'.visited
              /\ Record(search', loc) = Record(search, loc)
         /\ start_location \in search.visited
              => search'.previous[start_location] = None]_vars

\* The for loop is at an edge that leads back to a visited location.
C16_Witness ==
    /\ Relaxing
    /\ RelaxedEdge.destination \in search.visited
    /\ RelaxedEdge.destination # start_location
    /\ start_location \in search.visited

\* The record that lines 359-365 write for the neighbour of RelaxedEdge.
RelaxedRecord ==
    << RelaxedComposite,
       search.costs[search.current] + RelaxedEdge.cost,
       search.times[search.current] + RelaxedEdge.time,
       search.distances_km[search.current] + RelaxedEdge.distance,
       RelaxedTransfers, search.current, RelaxedEdge >>

\* C17: a location's record is replaced only by a relaxation whose
\* composite is strictly smaller than the location's recorded score, and
\* then all seven values are replaced together; a relaxation with an equal
\* composite leaves the record unchanged, and no score ever increases
\* during a search.
C17_StrictImprovement ==
    [][SearchStep =>
         \A loc \in DOMAIN search.distances :
           /\ search'.distances[loc] <= search.distances[loc]
           /\ \/ Record(search', loc) = Record(search, loc)
              \/ /\ Relaxing
                 /\ loc = RelaxedEdge.destination
                 /\ RelaxedComposite < search.distances[loc]
                 /\ Record(search', loc) = RelaxedRecord]_vars

\* The for loop is at an edge whose composite equals the score that
\* another edge gave to the same neighbour.
C17_Witness ==
    /\ Relaxing
    /\ RelaxedEdge.destination \notin search.visited
    /\ RelaxedComposite = search.distances[RelaxedEdge.destination]
    /\ Record(search, RelaxedEdge.destination) # RelaxedRecord

\* _dijkstra has returned; its tables are those of search.
Returned == pc = "collect"

\* C18: when _dijkstra returns (start # end), the predecessor recorded for
\* end is null if and only if the graph has no directed path from start
\* to end, and every location with no path from start has an infinite
\* score and a null predecessor.
C18_NullIffUnreachable ==
    Returned =>
      LET reached == ReachableFrom({ start_location })
      IN  /\ (search.previous[end_location] = None)
               <=> (end_location \notin reached)
          /\ \A loc \in DOMAIN search.previous \ reached :
               /\ search.distances[loc] = Infinity
               /\ search.previous[loc] = None

\* A search has returned without a path to end, from a start that has
\* edges of its own.
C18_Witness ==
    /\ Returned
    /\ search.previous[end_location] = None
    /\ end_location \notin ReachableFrom({ start_location })
    /\ ReachableFrom({ start_location }) # { start_location }

\* C19: every _dijkstra call terminates, with end popped or with the queue
\* empty; a location is expanded only when it is not yet visited and is
\* visited from then on, so at most once; the edges of the expanded
\* location are relaxed one after the other, each once; and no edge is
\* relaxed after end has been popped.
C19_Terminates ==
    /\ (pc \in { "dijkstra", "relax" }) ~> Returned
    /\ [](Returned => (end_location \in search.visited \/ search.pq = {}))
    /\ [](Relaxing => end_location \notin search.visited)
    /\ [][SearchStep =>
            /\ search.visited \subseteq search'.visited
            /\ (pc = "dijkstra" /\ pc' = "relax")
                 => /\ search'.current \notin search.visited
                    /\ search'.current \in search'.visited
                    /\ search'.edge_i = 1
            /\ (pc = "relax" /\ pc' = "relax")
                 => /\ search'.current = search.current
                    /\ search'.edge_i = search.edge_i + 1
                    /\ search'.visited = search.visited]_vars

\* A search has returned by the early exit, with entries left in the queue.
C19_Witness ==
    /\ Returned
    /\ end_location \in search.visited
    /\ search.pq # {}
    /\ Cardinality(search.visited) >= 3

\* The locations met by following predecessor links from loc, loc first,
\* for at most left links.
RECURSIVE PredecessorChain(_, _, _)
PredecessorChain(previous, loc, left) ==
    IF loc = None \/ left = 0 THEN << >>
    ELSE << loc >> \o PredecessorChain(previous, previous[loc], left - 1)

\* C20: in every state that _dijkstra returns with a non-null predecessor
\* for end, the walk along predecessor links from end visits no location
\* twice and stops at start; _reconstruct_path then returns a path that is
\* not empty, and the strategy's route is added to all_routes.
C20_PredecessorsLeadToStart ==
    Found =>
      LET n == Cardinality(DOMAIN search.previous)
          chain == PredecessorChain(search.previous, end_location, n + 1)
      IN  /\ Len(chain) <= n
          /\ \A i, j \in 1..Len(chain) : i # j => chain[i] # chain[j]
          /\ chain[Len(chain)] = start_location
          /\ search.previous[start_location] = None
          /\ reconstruct_path(locations, start_location, end_location,
                              search) # << >>
          /\ Len(collect_route(locations, all_routes,
                               strategies[strategy_idx], search,
                               start_location, end_location))
               = Len(all_routes) + 1

\* A search has returned a chain of four or more locations.
C20_Witness ==
    /\ Found
    /\ Len(PredecessorChain(search.previous, end_location, 4)) = 4
    /\ all_routes # << >>

-----------------------------------------------------------------------------
(* Properties of interleaved calls.                                        *)

\* C14: when two find_optimized_routes calls on one optimizer are
\* interleaved at arbitrary points, each returns exactly the result that
\* the call with the same start and end returns when it runs alone.
C14_InterleavedCallsAgree ==
    /\ pc = "done"
       => result = find_optimized_routes(locations, graph, start_location,
                                         end_location)
    /\ parked.pc = "done"
       => parked.result = find_optimized_routes(locations, graph,
                                                parked.start_location,
                                                parked.end_location)

\* A call has returned its routes while the other call is inside the for
\* loop of a search, with locations visited.
C14_Witness ==
    /\ HasRoutes
    /\ parked.pc = "relax"
    /\ Cardinality(parked.search.visited) >= 2
    /\ parked.all_routes # << >>

-----------------------------------------------------------------------------
(* Properties of the transfer count.                                       *)

\* The path that _reconstruct_path walks for the returned search: the
\* names from start to end along the predecessor links.
FoundPath == walk_back(search.previous, end_location)

\* The positions of FoundPath where the edge that arrives and the edge
\* that leaves have different modes.
ModeChanges ==
    { i \in 2..(Len(FoundPath) - 1) :
        search.edge_info[FoundPath[i]].mode
          # search.edge_info[FoundPath[i + 1]].mode }

\* C21: when _dijkstra returns with end reached, the transfer count
\* recorded for end is the number of positions of the start-to-end path
\* where two consecutive edges have different modes; the first edge out of
\* start counts as no transfer and gets no mode-change penalty: the
\* second location of the path has transfer count 0 and the composite of
\* its cost, time and walk penalty alone, and so has every relaxation of
\* an edge out of start.
C21_TransfersCountModeChanges ==
    /\ Found =>
         LET second == FoundPath[2]
         IN  /\ search.transfers[end_location] = Cardinality(ModeChanges)
             /\ search.edge_info[start_location] = NoEdge
             /\ search.transfers[second] = 0
             /\ search.distances[second]
                  = composite_score(strategies[strategy_idx],
                                    search.costs[second],
                                    search.times[second], 0, FALSE,
                                    search.edge_info[second])
    /\ (Relaxing /\ search.current = start_location) =>
         /\ ~RelaxedModeChanged
         /\ RelaxedTransfers = 0

\* A search has returned a path of three or more edges with two or more
\* transfers, the first of them at the second location of the path.
C21_Witness ==
    /\ Found
    /\ Len(FoundPath) >= 4
    /\ 2 \in ModeChanges
    /\ Cardinality(ModeChanges) >= 2
    /\ search.transfers[end_location] >= 2

-----------------------------------------------------------------------------
(* Properties of the deduplication.                                        *)

\* The position of a strategy's name in the order of strategies.
StrategyRank(name) ==
    CHOOSE k \in 1..Len(strategies) : strategies[k].name = name

\* The routes of all_routes that visit the locations of route r, in r's
\* order.
SamePath(r) ==
    { k \in 1..Len(all_routes) : path_key(all_routes[k]) = path_key(r) }

\* C22: when two or more strategies produce routes with the same ordered
\* sequence of location names, the result keeps only the route of the
\* earliest strategy (Cheapest, Fastest, Balanced, Most Convenient), with
\* that strategy's label, totals and step modes, also when a later route
\* used other modes between the same locations; every sequence of
\* locations that some strategy produced has its route in the result.
C22_EarliestStrategyKept ==
    HasRoutes =>
      /\ \A k \in 1..Len(all_routes) :
           \E j \in 1..Len(result) :
             /\ path_key(result[j]) = path_key(all_routes[k])
             /\ StrategyRank(result[j].strategy)
                  <= StrategyRank(all_routes[k].strategy)
      /\ \A j \in 1..Len(result) :
           LET first == CHOOSE k \in SamePath(result[j]) :
                          \A m \in SamePath(result[j]) : k <= m
           IN  /\ SamePath(result[j]) # {}
               /\ result[j] = all_routes[first]
               /\ \A m \in SamePath(result[j]) \ { first } :
                    StrategyRank(result[j].strategy)
                      < StrategyRank(all_routes[m].strategy)
      /\ \A i, j \in 1..Len(result) :
           i # j => path_key(result[i]) # path_key(result[j])

\* A returned list for which two strategies went through the same
\* locations by different modes, and a third strategy by other locations.
C22_Witness ==
    /\ HasRoutes
    /\ \E k, m \in 1..Len(all_routes) :
         /\ k < m
         /\ path_key(all_routes[k]) = path_key(all_routes[m])
         /\ \E p \in 1..Len(all_routes[k].path) :
              all_routes[k].path[p].mode # all_routes[m].path[p].mode
         /\ all_routes[k].total_cost # all_routes[m].total_cost
    /\ Len(result) >= 2

-----------------------------------------------------------------------------
(* Properties of the built edges.                                          *)

\* The edges of the graph, each with its source: <<source, edge>>.
Edges ==
    UNION { { << a, graph[a][i] >> : i \in 1..Len(graph[a]) } :
            a \in DOMAIN graph }

\* The modes of the edges of the graph.
EdgeModes == { e[2].mode : e \in Edges }

\* C23: after the network is built, for every edge from A to B with mode
\* m, time t, distance d and cost c, the graph also holds an edge from B
\* to A with the same m, t, d and c: no connection is one-directional.
C23_EdgesInPairs ==
    pc = "idle" =>
      \A e \in Edges :
        << e[2].destination, [e[2] EXCEPT !.destination = e[1]] >> \in Edges

\* The network is built, with edges of the four modes.
C23_Witness ==
    /\ pc = "idle"
    /\ EdgeModes = { "metro", "walk", "auto", "bus" }
    /\ Cardinality(Edges) >= 8

\* C24: after the network is built, the source and the destination of
\* every edge are two distinct keys of the location catalog: no edge is a
\* self-loop and no edge leaves or reaches a name outside the catalog.
C24_EdgesJoinCatalogKeys ==
    pc = "idle" =>
      /\ DOMAIN graph \subseteq Keys(locations)
      /\ \A e \in Edges :
           /\ e[1] \in Keys(locations)
           /\ e[2].destination \in Keys(locations)
           /\ e[2].destination # e[1]

\* The network is built, with edges between two places, between two
\* stations, and between a place and a station.
C24_Witness ==
    /\ pc = "idle"
    /\ \E e \in Edges : { e[1], e[2].destination } \cap Keys(metro_stations) = {}
    /\ \E e \in Edges : { e[1], e[2].destination } \subseteq Keys(metro_stations)
    /\ \E e \in Edges : /\ e[1] \notin Keys(metro_stations)
                        /\ e[2].destination \in Keys(metro_stations)

\* The straight-line distance of location L and the station at position j
\* of the station catalog.
StationDistance(L, j) ==
    haversine_distance(Get(locations, L).lat, Get(locations, L).lon,
                       metro_stations[j].lat, metro_stations[j].lon)

\* The station at position j is one of the 3 stations nearest to L: fewer
\* than 3 stations are nearer, or as near and earlier in the catalog.
AmongNearest(L, j) ==
    Cardinality({ m \in 1..Len(metro_stations) :
                    \/ StationDistance(L, m) < StationDistance(L, j)
                    \/ /\ StationDistance(L, m) = StationDistance(L, j)
                       /\ m < j }) < 3

\* The edges of mode m from a to b, as positions of a's list.
ModeEdges(a, b, m) ==
    IF a \in DOMAIN graph
    THEN { i \in 1..Len(graph[a]) :
             graph[a][i].mode = m /\ graph[a][i].destination = b }
    ELSE {}

\* The locations of the catalog that are not metro stations.
Places ==
    { locations[i].name : i \in { k \in 1..Len(locations) :
                                    locations[k].type # "metro_station" } }

\* C25: after the network is built, for every location L that is no metro
\* station and every station S, an edge between L and S exists only if S
\* is one of the 3 stations nearest to L (ties by the order of the station
\* catalog); and for each such S, at distance d, there is a walk edge iff
\* d < 1.5, an auto edge iff d < 15 and a bus edge iff 1.0 < d < 10, in
\* each direction, at most one per mode and direction, whatever the other
\* modes.
C25_NearestStationEdges ==
    pc = "idle" =>
      \A L \in Places, j \in 1..Len(metro_stations) :
        LET S == metro_stations[j].name
            d == StationDistance(L, j)
            count(m) == << Cardinality(ModeEdges(L, S, m)),
                           Cardinality(ModeEdges(S, L, m)) >>
            expect(b) == IF AmongNearest(L, j) /\ b
                         THEN << 1, 1 >> ELSE << 0, 0 >>
        IN  /\ count("walk") = expect(2 * d < 3 * Unit)
            /\ count("auto") = expect(d < 15 * Unit)
            /\ count("bus") = expect(Unit < d /\ d < 10 * Unit)
            /\ count("metro") = << 0, 0 >>

\* The network is built; a location has a station among its nearest 3 at
\* between 1.0 and 1.5 km (walk, auto and bus together), and a station
\* nearer than 15 km that is not among its nearest 3.
C25_Witness ==
    /\ pc = "idle"
    /\ \E L \in Places, j \in 1..Len(metro_stations) :
         /\ AmongNearest(L, j)
         /\ ModeEdges(L, metro_stations[j].name, "walk") # {}
         /\ ModeEdges(L, metro_stations[j].name, "auto") # {}
         /\ ModeEdges(L, metro_stations[j].name, "bus") # {}
    /\ \E L \in Places, j \in 1..Len(metro_stations) :
         /\ ~AmongNearest(L, j)
         /\ StationDistance(L, j) < 15 * Unit

-----------------------------------------------------------------------------
(* Properties of the four searches together.                               *)

\* The running call has two distinct catalog locations as arguments.
ValidQuery ==
    /\ Calling
    /\ start_location \in Keys(locations)
    /\ end_location \in Keys(locations)
    /\ start_location # end_location

\* The graph has a directed path from start to end.
EndReachable == end_location \in ReachableFrom({ start_location })

\* C26: for every query with start and end distinct and in the catalog,
\* the four searches agree on reachability: each finished search has added
\* its route when end is reachable in the graph and none has otherwise, so
\* after the four searches all_routes holds four candidates, one per
\* strategy in order, or none; and the call returns NoRouteFound exactly
\* when end is unreachable.
C26_StrategiesAgree ==
    /\ (ValidQuery /\ pc = "strategy") =>
         Len(all_routes) = IF EndReachable THEN strategy_idx - 1 ELSE 0
    /\ (ValidQuery /\ pc \in { "aggregate", "done" }) =>
         /\ Len(all_routes) = IF EndReachable THEN Len(strategies) ELSE 0
         /\ \A k \in 1..Len(all_routes) :
              all_routes[k].strategy = strategies[k].name
    /\ (ValidQuery /\ pc = "done") =>
         IF EndReachable
         THEN /\ Len(result) >= 1
              /\ \A i \in 1..Len(result) : "error" \notin DOMAIN result[i]
         ELSE result = << [error |-> "NoRouteFound",
                           start |-> start_location,
                           end |-> end_location] >>

\* The four searches of a call have finished with four candidates, of
\* which two go through different locations.
C26_Witness ==
    /\ ValidQuery
    /\ pc = "aggregate"
    /\ Len(all_routes) = Len(strategies)
    /\ \E k, m \in 1..Len(all_routes) :
         path_key(all_routes[k]) # path_key(all_routes[m])

-----------------------------------------------------------------------------
(* Properties of the steps of a route.                                     *)

\* C27: in every route that find_optimized_routes returns, each step
\* after the first corresponds to an edge of the graph from the previous
\* step's location to this step's location, with this step's mode (metro,
\* bus, auto or walk) and with segment values equal to the edge's time
\* rounded to one decimal and cost and distance rounded to two; no step
\* has mode "unknown".
C27_StepsAreEdges ==
    HasRoutes =>
      \A r \in 1..Len(result) :
        \A i \in 2..Len(result[r].path) :
          LET from == result[r].path[i - 1].location
              step == result[r].path[i]
          IN  /\ step.mode \in { "metro", "bus", "auto", "walk" }
              /\ from \in DOMAIN graph
              /\ \E k \in 1..Len(graph[from]) :
                   /\ graph[from][k].destination = step.location
                   /\ graph[from][k].mode = step.mode
                   /\ round1(graph[from][k].time) = step.segment_time
                   /\ round2(graph[from][k].cost) = step.segment_cost
                   /\ round2(graph[from][k].distance) = step.segment_distance

\* A returned route has a step whose edge is one of several edges between
\* the same two locations, and whose cost is not a multiple of 0.01.
C27_Witness ==
    /\ HasRoutes
    /\ \E r \in 1..Len(result) :
         \E i \in 2..Len(result[r].path) :
           LET from == result[r].path[i - 1].location
               step == result[r].path[i]
           IN  /\ Cardinality({ k \in 1..Len(graph[from]) :
                                  graph[from][k].destination = step.location })
                    >= 2
               /\ \E k \in 1..Len(graph[from]) :
                    /\ graph[from][k].destination = step.location
                    /\ graph[from][k].mode = step.mode
                    /\ graph[from][k].cost # step.segment_cost

-----------------------------------------------------------------------------
(* Properties of the tables that _dijkstra returns.                        *)

\* C30: when _dijkstra returns, for every location n with a predecessor p
\* and an arrival edge e, e is an edge of the graph's list for p with
\* destination n, and the cost, time and distance recorded for n are those
\* recorded for p plus those of e.
C30_RecordsFollowEdges ==
    Returned =>
      \A n \in DOMAIN search.previous :
        search.previous[n] # None =>
          LET p == search.previous[n]
              e == search.edge_info[n]
          IN  /\ e # NoEdge
              /\ e.destination = n
              /\ p \in DOMAIN graph
              /\ \E k \in 1..Len(graph[p]) : graph[p][k] = e
              /\ search.costs[n] = search.costs[p] + e.cost
              /\ search.times[n] = search.times[p] + e.time
              /\ search.distances_km[n] = search.distances_km[p] + e.distance

\* A search has returned with a location, other than end, that was reached
\* over two or more edges.
C30_Witness ==
    /\ Returned
    /\ \E n \in DOMAIN search.previous \ { end_location } :
         /\ search.previous[n] # None
         /\ search.previous[search.previous[n]] # None
         /\ search.costs[search.previous[n]] > 0

-----------------------------------------------------------------------------
(* Properties of the window.                                               *)

\* The calculations in flight: the worker threads that run, and the
\* finished ones whose callback the main loop has not yet run.
InFlight == Len(gui.threads) + Len(gui.after)

\* C28: in the window, at most one route calculation is in flight at any
\* time: from the moment calculate_routes starts a worker, the calculate
\* button is disabled, so that calculate_routes cannot run again, until the
\* _display_results or _show_error that the worker scheduled has run on
\* the main thread; only that callback enables the button again, and a
\* worker is started only with the button enabled and nothing in flight.
C28_OneWorkerInFlight ==
    /\ [](InFlight <= 1)
    /\ [](InFlight = 1 => gui.calculate_btn = "disabled")
    /\ [][/\ (gui.calculate_btn = "disabled"
                /\ gui'.calculate_btn = "normal")
               => /\ gui.after # << >>
                  /\ gui'.after = Tail(gui.after)
          /\ Len(gui'.threads) > Len(gui.threads)
               => /\ gui.calculate_btn = "normal"
                  /\ InFlight = 0]_vars

\* A worker has finished and its callback waits for the main loop, with
\* the button still disabled and two locations in the fields that would
\* pass validate_inputs.
C28_Witness ==
    /\ gui.threads = << >>
    /\ Len(gui.after) = 1
    /\ gui.calculate_btn = "disabled"
    /\ validate_inputs(gui, locations) = NoMessage

\* C29: the (start, end) pair that the worker thread passes to
\* find_optimized_routes is the pair that validate_inputs accepted for
\* that click, whatever the main thread does to the fields (swap_locations,
\* typing or selecting a location) while the calculation is starting.
C29_WorkerPassesAcceptedPair ==
    \A i \in 1..Len(gui.threads) :
      gui.threads[i].pc = "call"
        => << gui.threads[i].start, gui.threads[i].end >>
             = gui.threads[i].accepted

=============================================================================
